---------------------------- MODULE Spec2Model ----------------------------
(***************************************************************************)
(* A model of the trust-gated execution core of the repository:            *)
(*   - the staged payment engine      (src/ap2/payment_mock.py)            *)
(*   - the KYC verification authority (src/a2a_kyc_enhanced.py)            *)
(* Amounts are whole currency units; risk scores are scaled by RiskScale,  *)
(* so 0.1 is 100, 0.3 is 300 and the threshold 0.8 is 800.                 *)
(* Timestamps of the payment engine are written but never read by any      *)
(* operation and are left out of the payment records.                      *)
(***************************************************************************)
EXTENDS Integers, Sequences, FiniteSets, TLC

\* ------------------------------------------------------------------ bounds
MaxPayments == 2
MaxAuths == 2
MaxReceipts == 2
MaxClock == 4
MaxTransactions == 3
MaxExecutions == 3
MaxRuns == 4

\* ------------------------------------------------------- program constants
RiskScale == 1000
BaseRisk == 100
AmountRiskCap == 300
RiskThreshold == 800

\* ------------------------------------------------------------------ inputs
\* The (amount, currency, purpose) arguments create_payment_intent is called with.
IntentInputs ==
    {[amount |-> -200, currency |-> "USD", purpose |-> "booking"],
     [amount |-> 0, currency |-> "USD", purpose |-> "booking"],
     [amount |-> 50, currency |-> "EUR", purpose |-> "booking"],
     [amount |-> 5000, currency |-> "USD", purpose |-> "research"]}
Authorizers == {"agent_nav"}
AuthMethods == {"agent_signature"}

VARIABLES
    payment_intents,   \* AP2PaymentMock.payment_intents : payment_id -> PaymentIntent
    authorizations,    \* AP2PaymentMock.authorizations  : auth_id -> PaymentAuthorization
    receipts,          \* AP2PaymentMock.receipts        : receipt_id -> PaymentReceipt
    uuid_calls,        \* number of uuid.uuid4() values drawn so far
    ap2_call,          \* the engine call that ran last, with its arguments
    ap2_ret,           \* the dict that call returned
    confirm_frames,    \* caller -> its confirm_payment call in progress
    status_seen,       \* what the last get_payment_status call and an abandoned confirm left
    identity_store,       \* KycAgent._identity_store : investor_id -> hashed identity
    verification_states,  \* KycAgent._verification_states : investor_id -> VerificationState
    kyc_clock,            \* datetime.now(), as the number of messages handled
    kyc_call,             \* the message KycAgent.receive_message handled last
    kyc_ret,              \* the A2AMessage it answered with, or the exception raised
    last_submission,      \* history: the identity_data each investor submitted last
    repeat_count,         \* history: how many times in a row it was submitted
    pair_identity_store,       \* _identity_store of a second authority run beside the first
    pair_verification_states,  \* _verification_states of the second authority
    pair_ret,                  \* the second authority's answer to the last message
    transactions,              \* company_id -> CompanyAgent.transactions
    company_stack,             \* frames of _handle_investment_request in progress
    company_uuid_calls,        \* uuid4() values drawn for transaction ids
    company_ret,               \* the message a CompanyAgent returned last
    verification_store,        \* a2a_kyc_demo KycAgent.verification_store : verification_id -> dict
    investor_verifications,    \* a2a_kyc_demo KycAgent.investor_verifications : investor_id -> id
    investor_states,           \* investor_id -> InvestorAgent.state
    demo_transactions,         \* company_id -> a2a_kyc_demo CompanyAgent.transactions
    demo_clock,                \* datetime.now() of a2a_kyc_demo, as the number of calls served
    demo_uuid_calls,           \* uuid4() values drawn for a2a_kyc_demo's transaction ids
    demo_call,                 \* the message an a2a_kyc_demo agent was sent last
    demo_kyc_ret,              \* the message a2a_kyc_demo's KycAgent returned last
    demo_ret,                  \* the message an a2a_kyc_demo CompanyAgent returned last
    execution_context,         \* AgentNav.execution_context
    resolver_call,             \* the parameters _resolve_parameters was given last
    resolver_ret,              \* the dict _resolve_parameters returned last
    step_parameters,           \* the caller's parameters dict after that call
    executions,                \* AgentNav.executions : execution_id -> TaskExecution
    mcp_tasks,                 \* MCPServer.tasks : task_id -> Task
    nav_uuid_calls,            \* uuid4() values Kai, Nav and the MCP server drew so far
    nav_frame,                 \* the receive_a2a_message call in progress, if any
    nav_ret,                   \* the dict receive_a2a_message returned last
    context_plan,              \* history: the plan id whose step stored each context entry
    payment_stages,            \* history: the engine's answers within the last step handled
    plan_queue,                \* the messages a demo's loop has still to send
    execution_results,         \* demo_workspace_booking's list execution_results
    step_returns,              \* history: what the calls of the running loop returned
    demo,                      \* the demo function that runs or ran last
    runs                       \* the number of demo functions started

confvars == <<confirm_frames, status_seen>>
ap2vars == <<payment_intents, authorizations, receipts, uuid_calls, ap2_call, ap2_ret, confvars>>
kycvars == <<identity_store, verification_states, kyc_clock, kyc_call, kyc_ret, last_submission,
            repeat_count>>
pairvars == <<pair_identity_store, pair_verification_states, pair_ret>>
vidvars == <<verification_store, investor_verifications, investor_states, demo_transactions,
            demo_clock, demo_uuid_calls, demo_call, demo_kyc_ret, demo_ret>>
compvars == <<transactions, company_stack, company_uuid_calls, company_ret, vidvars>>
orchvars == <<executions, mcp_tasks, nav_uuid_calls, nav_frame, nav_ret, context_plan,
             payment_stages>>
demovars == <<plan_queue, execution_results, step_returns, demo, runs>>
navvars == <<execution_context, resolver_call, resolver_ret, step_parameters, orchvars,
            demovars>>
vars == <<ap2vars, kycvars, pairvars, compvars, navvars>>

\* PaymentStatus (the enum's values)
INTENT_CREATED == "intent_created"
PENDING_AUTHORIZATION == "pending_authorization"
AUTHORIZED == "authorized"
PROCESSING == "processing"
COMPLETED == "completed"
FAILED == "failed"
CANCELLED == "cancelled"
PaymentStatus == {INTENT_CREATED, PENDING_AUTHORIZATION, AUTHORIZED, PROCESSING,
                  COMPLETED, FAILED, CANCELLED}

\* A generator that repeats itself: the k-th value of every call is k.
Mutant_Uuid4(k) == k

\* uuid.uuid4(): the k-th value drawn is distinct from every earlier one.
Uuid4(k) == uuid_calls + k

\* "PAY-" + str(uuid), "AUTH-" + ..., "RCP-" + ..., "TXN-" + ...
PrefixedId(prefix, u) == <<prefix, u>>

\* str(uuid.uuid4())[:8].upper()
ConfirmationCode(u) == <<"UPPER8", u>>

\* Payment ids a caller may pass: every id the engine issued, and ids it never issued.
PaymentIdInputs == DOMAIN payment_intents \cup {PrefixedId("PAY-", 0)}

Min(a, b) == IF a <= b THEN a ELSE b

\* A score whose amount term has no cap.
Mutant_CalculateRiskScore(intent) == BaseRisk + intent.amount

\* _calculate_risk_score: base_risk + min(amount / 1000.0, 0.3), scaled by RiskScale.
CalculateRiskScore(intent) == BaseRisk + Min(intent.amount, AmountRiskCap)

\* A mis-set threshold: 0.3 in place of 0.8.
Mutant_IsHighRisk(risk_score) == risk_score > AmountRiskCap

\* authorize_payment's test `risk_score > 0.8`
IsHighRisk(risk_score) == risk_score > RiskThreshold

\* A status test that asks for the status confirm_payment itself sets.
Mutant_NotAuthorizedStatus_Processing(status) == status # PROCESSING

\* A status test that lets a completed payment through.
Mutant_NotAuthorizedStatus(status) == status # AUTHORIZED /\ status # COMPLETED

\* confirm_payment's test `intent.status != PaymentStatus.AUTHORIZED`
NotAuthorizedStatus(status) == status # AUTHORIZED

\* A not-found result that reports success.
Mutant_NotFoundResult(payment_id) ==
    [success |-> TRUE, error |-> <<"Payment intent not found: ", payment_id>>]

\* The dict both authorize_payment and confirm_payment return for an id they do not hold.
NotFoundResult(payment_id) ==
    [success |-> FALSE, error |-> <<"Payment intent not found: ", payment_id>>]

\* A receipt that reuses the payment id as its transaction id.
Mutant_ConfirmResult(intent, receipt_id, transaction_id, confirmation_code) ==
    [success |-> TRUE, receipt_id |-> receipt_id,
     payment_id |-> intent.payment_id,
     transaction_id |-> intent.payment_id,
     amount |-> intent.amount,
     currency |-> intent.currency,
     status |-> "completed",
     confirmation_code |-> confirmation_code,
     purpose |-> intent.purpose]

\* The dict confirm_payment returns on success.
ConfirmResult(intent, receipt_id, transaction_id, confirmation_code) ==
    [success |-> TRUE, receipt_id |-> receipt_id,
     payment_id |-> intent.payment_id,
     transaction_id |-> transaction_id,
     amount |-> intent.amount,
     currency |-> intent.currency,
     status |-> "completed",
     confirmation_code |-> confirmation_code,
     purpose |-> intent.purpose]

ReceiptsOf(pid) == {r \in DOMAIN receipts : receipts[r].payment_id = pid}
AuthorizationsOf(pid) == {a \in DOMAIN authorizations : authorizations[a].payment_id = pid}

\* The threads that call the engine, and a thread that is in no call.
Callers == {"caller-1", "caller-2"}
IdleFrame == [pc |-> "idle"]

AP2Init ==
    /\ payment_intents = <<>>
    /\ authorizations = <<>>
    /\ receipts = <<>>
    /\ uuid_calls = 0
    /\ ap2_call = [op |-> "init"]
    /\ ap2_ret = [op |-> "init"]
    /\ confirm_frames = [caller \in Callers |-> IdleFrame]
    /\ status_seen = <<>>

\* create_payment_intent(amount, purpose, currency)
CreatePaymentIntent(amount, purpose, currency) ==
    /\ Cardinality(DOMAIN payment_intents) < MaxPayments
    /\ LET payment_id == PrefixedId("PAY-", Uuid4(1))
           intent == [payment_id |-> payment_id, amount |-> amount,
                      currency |-> currency, purpose |-> purpose,
                      status |-> INTENT_CREATED]
       IN /\ payment_intents' = (payment_id :> intent) @@ payment_intents
          /\ uuid_calls' = uuid_calls + 1
          /\ ap2_call' = [op |-> "create_payment_intent", amount |-> amount,
                          purpose |-> purpose, currency |-> currency]
          /\ ap2_ret' = [payment_id |-> payment_id, amount |-> amount,
                         currency |-> currency, purpose |-> purpose,
                         status |-> INTENT_CREATED,
                         next_step |-> "authorize_payment"]
    /\ UNCHANGED <<authorizations, receipts>>

\* authorize_payment(payment_id, authorized_by, auth_method)
AuthorizePayment(payment_id, authorized_by, auth_method) ==
    /\ ap2_call' = [op |-> "authorize_payment", payment_id |-> payment_id]
    /\ IF payment_id \notin DOMAIN payment_intents
       THEN /\ ap2_ret' = NotFoundResult(payment_id)
            /\ UNCHANGED <<payment_intents, authorizations, receipts, uuid_calls>>
       ELSE LET intent == payment_intents[payment_id]
                risk_score == CalculateRiskScore(intent)
            IN IF IsHighRisk(risk_score)
               THEN /\ payment_intents' =
                           [payment_intents EXCEPT ![payment_id].status = FAILED]
                    /\ ap2_ret' = [success |-> FALSE, payment_id |-> payment_id,
                                   error |-> <<"Payment blocked due to high risk score">>,
                                   risk_score |-> risk_score]
                    /\ UNCHANGED <<authorizations, receipts, uuid_calls>>
               ELSE LET auth_id == PrefixedId("AUTH-", Uuid4(1))
                        authorization == [auth_id |-> auth_id,
                                          payment_id |-> payment_id,
                                          authorized_by |-> authorized_by,
                                          auth_method |-> auth_method,
                                          risk_score |-> risk_score]
                    IN /\ Cardinality(DOMAIN authorizations) < MaxAuths
                       /\ authorizations' = (auth_id :> authorization) @@ authorizations
                       /\ payment_intents' =
                              [payment_intents EXCEPT ![payment_id].status = AUTHORIZED]
                       /\ uuid_calls' = uuid_calls + 1
                       /\ ap2_ret' = [success |-> TRUE, payment_id |-> payment_id,
                                      auth_id |-> auth_id, risk_score |-> risk_score,
                                      status |-> AUTHORIZED,
                                      next_step |-> "confirm_payment"]
                       /\ UNCHANGED receipts

\* confirm_payment(payment_id)
ConfirmPayment(payment_id) ==
    /\ ap2_call' = [op |-> "confirm_payment", payment_id |-> payment_id]
    /\ IF payment_id \notin DOMAIN payment_intents
       THEN /\ ap2_ret' = NotFoundResult(payment_id)
            /\ UNCHANGED <<payment_intents, authorizations, receipts, uuid_calls>>
       ELSE LET intent == payment_intents[payment_id]
            IN IF NotAuthorizedStatus(intent.status)
               THEN /\ ap2_ret' = [success |-> FALSE, payment_id |-> payment_id,
                                   error |-> <<"Payment not authorized. Current status: ",
                                               intent.status>>]
                    /\ UNCHANGED <<payment_intents, authorizations, receipts, uuid_calls>>
               ELSE LET receipt_id == PrefixedId("RCP-", Uuid4(1))
                        transaction_id == PrefixedId("TXN-", Uuid4(2))
                        confirmation_code == ConfirmationCode(Uuid4(3))
                        receipt == [receipt_id |-> receipt_id,
                                    payment_id |-> payment_id,
                                    transaction_id |-> transaction_id,
                                    amount |-> intent.amount,
                                    currency |-> intent.currency,
                                    status |-> "completed",
                                    confirmation_code |-> confirmation_code]
                    IN /\ Cardinality(DOMAIN receipts) < MaxReceipts
                       \* status goes PROCESSING and then COMPLETED within the one call
                       /\ receipts' = (receipt_id :> receipt) @@ receipts
                       /\ payment_intents' =
                              [payment_intents EXCEPT ![payment_id].status = COMPLETED]
                       /\ uuid_calls' = uuid_calls + 3
                       /\ ap2_ret' = ConfirmResult(intent, receipt_id, transaction_id,
                                                    confirmation_code)
                       /\ UNCHANGED authorizations

AP2Next ==
    \/ \E i \in IntentInputs :
           CreatePaymentIntent(i.amount, i.purpose, i.currency) /\ UNCHANGED <<confvars, kycvars, pairvars, compvars, navvars>>
    \/ \E payment_id \in PaymentIdInputs, by \in Authorizers, m \in AuthMethods :
           AuthorizePayment(payment_id, by, m) /\ UNCHANGED <<confvars, kycvars, pairvars, compvars, navvars>>
    \/ \E payment_id \in PaymentIdInputs :
           ConfirmPayment(payment_id) /\ UNCHANGED <<confvars, kycvars, pairvars, compvars, navvars>>

\* The statuses the assignments `intent.status = ...` of the engine's operations
\* can write over `status`: authorize_payment assigns FAILED or AUTHORIZED
\* without looking at the status, confirm_payment assigns PROCESSING to an
\* authorized payment and then COMPLETED.
StatusSuccessors(status) ==
    {FAILED, AUTHORIZED}
        \cup (IF status = AUTHORIZED THEN {PROCESSING} ELSE {})
        \cup (IF status = PROCESSING THEN {COMPLETED} ELSE {})

\* The statuses some sequence of operations can move a payment to from one of `statuses`.
RECURSIVE ReachableStatuses(_)
ReachableStatuses(statuses) ==
    LET next == statuses \cup UNION {StatusSuccessors(status) : status \in statuses}
    IN IF next = statuses THEN statuses ELSE ReachableStatuses(next)

\* ------------------------------------------ confirm_payment, step by step
\* The engine holds no lock: the statements of a confirm_payment call run one
\* after the other, and between any two of them another thread's call can run.

\* The arguments the callers of this part create intents with.
ConfirmIntentInputs == {[amount |-> 50, currency |-> "EUR", purpose |-> "booking"]}

\* The PaymentReceipt confirm_payment builds.
PaymentReceipt(intent, receipt_id, transaction_id, confirmation_code) ==
    [receipt_id |-> receipt_id,
     payment_id |-> intent.payment_id,
     transaction_id |-> transaction_id,
     amount |-> intent.amount,
     currency |-> intent.currency,
     status |-> "completed",
     confirmation_code |-> confirmation_code]

\* confirm_payment up to its status test: the lookup and the two early returns.
ConfirmCheck(caller, payment_id) ==
    /\ confirm_frames[caller].pc \in {"idle", "returned", "abandoned"}
    /\ confirm_frames' =
           [confirm_frames EXCEPT ![caller] =
                IF payment_id \notin DOMAIN payment_intents
                THEN [pc |-> "returned", payment_id |-> payment_id,
                      ret |-> NotFoundResult(payment_id)]
                ELSE IF NotAuthorizedStatus(payment_intents[payment_id].status)
                THEN [pc |-> "returned", payment_id |-> payment_id,
                      ret |-> [success |-> FALSE, payment_id |-> payment_id,
                               error |-> <<"Payment not authorized. Current status: ",
                                           payment_intents[payment_id].status>>]]
                ELSE [pc |-> "checked", payment_id |-> payment_id]]
    /\ UNCHANGED <<payment_intents, authorizations, receipts, uuid_calls, ap2_call, ap2_ret,
                   status_seen>>

\* intent.status = PaymentStatus.PROCESSING
ConfirmSetProcessing(caller) ==
    /\ confirm_frames[caller].pc = "checked"
    /\ payment_intents' =
           [payment_intents EXCEPT ![confirm_frames[caller].payment_id].status = PROCESSING]
    /\ confirm_frames' = [confirm_frames EXCEPT ![caller].pc = "processing"]
    /\ UNCHANGED <<authorizations, receipts, uuid_calls, ap2_call, ap2_ret, status_seen>>

\* The three ids are drawn, the receipt built and stored in self.receipts.
ConfirmCreateReceipt(caller) ==
    /\ confirm_frames[caller].pc = "processing"
    /\ Cardinality(DOMAIN receipts) < MaxReceipts
    /\ LET intent == payment_intents[confirm_frames[caller].payment_id]
           receipt == PaymentReceipt(intent, PrefixedId("RCP-", Uuid4(1)),
                                     PrefixedId("TXN-", Uuid4(2)),
                                     ConfirmationCode(Uuid4(3)))
       IN /\ receipts' = (receipt.receipt_id :> receipt) @@ receipts
          /\ confirm_frames' =
                 [confirm_frames EXCEPT ![caller] =
                      [pc |-> "receipt", payment_id |-> intent.payment_id,
                       receipt |-> receipt]]
    /\ uuid_calls' = uuid_calls + 3
    /\ UNCHANGED <<payment_intents, authorizations, ap2_call, ap2_ret, status_seen>>

\* intent.status = PaymentStatus.COMPLETED, and the return of the success dict.
ConfirmSetCompleted(caller) ==
    /\ confirm_frames[caller].pc = "receipt"
    /\ LET frame == confirm_frames[caller]
           intent == payment_intents[frame.payment_id]
       IN /\ payment_intents' =
                 [payment_intents EXCEPT ![frame.payment_id].status = COMPLETED]
          /\ confirm_frames' =
                 [confirm_frames EXCEPT ![caller] =
                      [pc |-> "returned", payment_id |-> frame.payment_id,
                       ret |-> ConfirmResult(intent, frame.receipt.receipt_id,
                                             frame.receipt.transaction_id,
                                             frame.receipt.confirmation_code)]]
    /\ UNCHANGED <<authorizations, receipts, uuid_calls, ap2_call, ap2_ret, status_seen>>

\* What an observer of payment_id finds: its status and the receipts issued for it.
Observation(op, payment_id) ==
    [op |-> op, payment_id |-> payment_id, found |-> TRUE,
     status |-> payment_intents[payment_id].status,
     receipts |-> ReceiptsOf(payment_id)]

\* A confirm_payment call is given up between two of its statements: its
\* thread is interrupted or the caller's timeout expires. Nothing is undone.
AbandonConfirm(caller) ==
    /\ confirm_frames[caller].pc \in {"checked", "processing", "receipt"}
    /\ confirm_frames' =
           [confirm_frames EXCEPT ![caller] =
                [pc |-> "abandoned", payment_id |-> confirm_frames[caller].payment_id]]
    /\ status_seen' = Observation("confirm_payment", confirm_frames[caller].payment_id)
    /\ UNCHANGED <<payment_intents, authorizations, receipts, uuid_calls, ap2_call, ap2_ret>>

\* get_payment_status(payment_id)
GetPaymentStatus(payment_id) ==
    /\ status_seen' =
           IF payment_id \notin DOMAIN payment_intents
           THEN [op |-> "get_payment_status", payment_id |-> payment_id, found |-> FALSE]
           ELSE Observation("get_payment_status", payment_id)
    /\ UNCHANGED <<payment_intents, authorizations, receipts, uuid_calls, ap2_call, ap2_ret,
                   confirm_frames>>

\* Intents are created and authorized once each; the callers confirm them and
\* query their status in any interleaving.
ConfirmNext ==
    \/ \E i \in ConfirmIntentInputs :
           CreatePaymentIntent(i.amount, i.purpose, i.currency) /\ UNCHANGED <<confvars, kycvars, pairvars, compvars, navvars>>
    \/ \E payment_id \in DOMAIN payment_intents, by \in Authorizers, m \in AuthMethods :
           /\ payment_intents[payment_id].status = INTENT_CREATED
           /\ AuthorizePayment(payment_id, by, m)
           /\ UNCHANGED <<confvars, kycvars, pairvars, compvars, navvars>>
    \/ \E caller \in Callers, payment_id \in PaymentIdInputs :
           ConfirmCheck(caller, payment_id) /\ UNCHANGED <<kycvars, pairvars, compvars, navvars>>
    \/ \E caller \in Callers :
           ConfirmSetProcessing(caller) /\ UNCHANGED <<kycvars, pairvars, compvars, navvars>>
    \/ \E caller \in Callers :
           ConfirmCreateReceipt(caller) /\ UNCHANGED <<kycvars, pairvars, compvars, navvars>>
    \/ \E caller \in Callers :
           ConfirmSetCompleted(caller) /\ UNCHANGED <<kycvars, pairvars, compvars, navvars>>
    \/ \E caller \in Callers :
           AbandonConfirm(caller) /\ UNCHANGED <<kycvars, pairvars, compvars, navvars>>
    \/ \E payment_id \in PaymentIdInputs :
           GetPaymentStatus(payment_id) /\ UNCHANGED <<kycvars, pairvars, compvars, navvars>>

\* ------------------------------------------- the verification authority
\* (src/a2a_kyc_enhanced.py, class KycAgent)

Investors == {"INV-001", "INV-002"}

\* Two further principals an InvestorAgent can be constructed for.
OtherInvestors == {"INV-866198", "INV-27990033"}
KycAgentId == "KycAgent-TrustedAuthority"
Senders == {"CompanyAgent-COMP-A"}

\* Python's None
None == <<"None">>

\* A member of an Enum class, and its .value
EnumMember(cls, value) == <<cls, value>>
EnumValue(member) == member[2]

\* KycStatus
NOT_VERIFIED == EnumMember("KycStatus", "not_verified")
PENDING == EnumMember("KycStatus", "pending")
VERIFIED == EnumMember("KycStatus", "verified")
REJECTED == EnumMember("KycStatus", "rejected")

\* Permission
INVEST == EnumMember("Permission", "invest")
TRADE == EnumMember("Permission", "trade")
WITHDRAW == EnumMember("Permission", "withdraw")
TRANSFER == EnumMember("Permission", "transfer")

\* MessageType
KYC_SUBMISSION == "kyc_submission"
KYC_VERIFICATION_RESPONSE == "kyc_verification_response"
VERIFICATION_STATE_REQUEST == "verification_state_request"
VERIFICATION_STATE_RESPONSE == "verification_state_response"
INVESTMENT_REQUEST == "investment_request"
INVESTMENT_RESPONSE == "investment_response"

\* _verify_identity's required_fields
RequiredFields == <<"name", "date_of_birth", "national_id", "address">>

SeqRange(seq) == {seq[i] : i \in DOMAIN seq}

\* An identity_data dict holding `fields`, each with the value `person` gave.
IdentityData(fields, person) == [f \in fields |-> <<person, f>>]

\* The identity_data dicts submitted: complete ones of two persons, one with an
\* extra field, one short of each required field, and the empty dict.
IdentityInputs ==
    {IdentityData(SeqRange(RequiredFields), "A"),
     IdentityData(SeqRange(RequiredFields), "B"),
     IdentityData(SeqRange(RequiredFields) \cup {"email"}, "A"),
     IdentityData({}, "A")}
    \cup {IdentityData(SeqRange(RequiredFields) \ {f}, "A") : f \in SeqRange(RequiredFields)}

\* datetime.now().isoformat()
NowIso == <<"iso", kyc_clock>>

\* hashlib.sha256(x).hexdigest(): distinct inputs give distinct digests.
Sha256Hex(x) == <<"sha256", x>>

\* A verification id drawn afresh at every submission.
Mutant_VerificationIdOf(investor_id) == <<"KYC-", <<"UPPER12", Sha256Hex(NowIso)>>>>

\* hashlib.sha256(investor_id.encode()).hexdigest(), as the pair of its first
\* twelve hex digits and the fifty-two that follow.
Sha256HexOfId(investor_id) ==
    CASE investor_id = "INV-001" ->
             <<"f8edcf6127e8", "ad7de28bf0854d76d0aaf953c0f02ae791d864ed04f24a96fd06">>
      [] investor_id = "INV-002" ->
             <<"6e1e1e0644bb", "a5d47eb4608de71a2e8f5346ff1c45dadad2573461157e0ce0fa">>
      [] investor_id = "INV-866198" ->
             <<"daf37de42020", "300a9e9c24566d1d2dc14c89b24eccedeaf07f0cf7851b5b6b0b">>
      [] investor_id = "INV-27990033" ->
             <<"daf37de42020", "0d47d8bf85c163a4d6999c1d69b9e7a8d8ba12c47aee3422ab50">>

\* hexdigest[:12]
First12(hexdigest) == hexdigest[1]

\* str.upper(), one to one on hex digits
Upper(str) == <<"upper", str>>

\* f"KYC-{hashlib.sha256(investor_id.encode()).hexdigest()[:12].upper()}"
VerificationIdOf(investor_id) == <<"KYC-", Upper(First12(Sha256HexOfId(investor_id)))>>

\* _verify_identity with any(...) in place of all(...).
Mutant_VerifyIdentity(identity_data) ==
    \E i \in DOMAIN RequiredFields : RequiredFields[i] \in DOMAIN identity_data

\* _verify_identity: all(field in identity_data for field in required_fields)
VerifyIdentity(identity_data) ==
    \A i \in DOMAIN RequiredFields : RequiredFields[i] \in DOMAIN identity_data

\* The VerificationState dataclass with its defaults.
VerificationState(investor_id, kyc_status, verification_id, verified_at, permissions, risk_level, compliance_flags) ==
    [investor_id |-> investor_id, kyc_status |-> kyc_status,
     verification_id |-> verification_id, verified_at |-> verified_at,
     permissions |-> permissions, risk_level |-> risk_level,
     compliance_flags |-> compliance_flags]

\* A verified state granted every permission but invest.
Mutant_VerifiedState(investor_id) ==
    VerificationState(investor_id, VERIFIED, VerificationIdOf(investor_id), NowIso,
                      <<TRADE, WITHDRAW, TRANSFER>>, "low",
                      <<"accredited_investor", "aml_cleared">>)

\* The state stored for a valid submission.
VerifiedState(investor_id) ==
    VerificationState(investor_id, VERIFIED, VerificationIdOf(investor_id), NowIso,
                      <<INVEST, TRADE, WITHDRAW, TRANSFER>>, "low",
                      <<"accredited_investor", "aml_cleared">>)

\* A rejection that only flips the status of the state already stored.
Mutant_RejectedState(investor_id) ==
    IF investor_id \in DOMAIN verification_states
    THEN [verification_states[investor_id] EXCEPT !.kyc_status = REJECTED]
    ELSE VerificationState(investor_id, REJECTED, None, None, <<>>, "medium", <<>>)

\* The state stored for an invalid submission.
RejectedState(investor_id) ==
    VerificationState(investor_id, REJECTED, None, None, <<>>, "medium", <<>>)

\* The state synthesized for a principal with no stored state.
DefaultState(investor_id) ==
    VerificationState(investor_id, NOT_VERIFIED, None, None, <<>>, "medium", <<>>)

\* VerificationState.to_dict
ToDict(state) ==
    [investor_id |-> state.investor_id,
     kyc_status |-> EnumValue(state.kyc_status),
     verification_id |-> state.verification_id,
     verified_at |-> state.verified_at,
     permissions |-> [i \in DOMAIN state.permissions |-> EnumValue(state.permissions[i])],
     risk_level |-> state.risk_level,
     compliance_flags |-> state.compliance_flags]

\* An A2AMessage (its message_id, a fresh uuid no handler reads, is left out).
A2AMessage(message_type, sender_agent, recipient_agent, timestamp, payload) ==
    [message_type |-> message_type, sender_agent |-> sender_agent,
     recipient_agent |-> recipient_agent, timestamp |-> timestamp,
     payload |-> payload]

KycInit ==
    /\ identity_store = <<>>
    /\ verification_states = <<>>
    /\ kyc_clock = 0
    /\ kyc_call = [message_type |-> "init"]
    /\ kyc_ret = [message_type |-> "init"]
    /\ last_submission = [investor_id \in Investors \cup OtherInvestors |-> None]
    /\ repeat_count = [investor_id \in Investors \cup OtherInvestors |-> 0]

PairInit ==
    /\ pair_identity_store = <<>>
    /\ pair_verification_states = <<>>
    /\ pair_ret = [message_type |-> "init"]

\* A submission that rebuilds the state store with the submitter's state alone.
Mutant_StatesAfterSubmission_Reset(states, message) ==
    LET investor_id == message.payload.investor_id
    IN investor_id :> (IF VerifyIdentity(message.payload.identity_data)
                       THEN VerifiedState(investor_id)
                       ELSE RejectedState(investor_id))

\* A submission that copies the national id into the compliance flags.
Mutant_StatesAfterSubmission_Leak(states, message) ==
    LET investor_id == message.payload.investor_id
        identity_data == message.payload.identity_data
    IN IF VerifyIdentity(identity_data)
       THEN (investor_id :> [VerifiedState(investor_id) EXCEPT
                                !.compliance_flags = <<identity_data["national_id"]>>])
            @@ states
       ELSE (investor_id :> RejectedState(investor_id)) @@ states

\* _handle_kyc_submission: self._verification_states after the message
StatesAfterSubmission(states, message) ==
    LET investor_id == message.payload.investor_id
    IN IF VerifyIdentity(message.payload.identity_data)
       THEN (investor_id :> VerifiedState(investor_id)) @@ states
       ELSE (investor_id :> RejectedState(investor_id)) @@ states

\* _handle_kyc_submission: self._identity_store after the message
StoreAfterSubmission(store, message) ==
    LET investor_id == message.payload.investor_id
        identity_data == message.payload.identity_data
    IN IF VerifyIdentity(identity_data)
       THEN (investor_id :> [identity_hash |-> Sha256Hex(identity_data),
                             verified_at |-> NowIso]) @@ store
       ELSE store

\* _handle_kyc_submission: the KYC_VERIFICATION_RESPONSE returned
SubmissionResponse(message) ==
    LET investor_id == message.payload.investor_id
    IN IF VerifyIdentity(message.payload.identity_data)
       THEN A2AMessage(KYC_VERIFICATION_RESPONSE, KycAgentId,
                       message.sender_agent, NowIso,
                       [verification_status |-> "verified",
                        verification_id |-> VerificationIdOf(investor_id),
                        verified_at |-> NowIso])
       ELSE A2AMessage(KYC_VERIFICATION_RESPONSE, KycAgentId,
                       message.sender_agent, NowIso,
                       [verification_status |-> "rejected",
                        reason |-> "Identity verification failed"])

\* A query that falls back on some stored state when the principal has none.
Mutant_StateResponse(states, message) ==
    LET investor_id == message.payload.investor_id
        state == IF investor_id \in DOMAIN states
                 THEN states[investor_id]
                 ELSE IF DOMAIN states # {}
                 THEN states[CHOOSE other \in DOMAIN states : TRUE]
                 ELSE DefaultState(investor_id)
    IN A2AMessage(VERIFICATION_STATE_RESPONSE, KycAgentId,
                  message.sender_agent, NowIso,
                  [verification_state |-> ToDict(state)])

\* _handle_verification_state_request: the VERIFICATION_STATE_RESPONSE returned
StateResponse(states, message) ==
    LET investor_id == message.payload.investor_id
        state == IF investor_id \in DOMAIN states
                 THEN states[investor_id]
                 ELSE DefaultState(investor_id)
    IN A2AMessage(VERIFICATION_STATE_RESPONSE, KycAgentId,
                  message.sender_agent, NowIso,
                  [verification_state |-> ToDict(state)])

\* _handle_kyc_submission
HandleKycSubmission(message) ==
    /\ identity_store' = StoreAfterSubmission(identity_store, message)
    /\ verification_states' = StatesAfterSubmission(verification_states, message)
    /\ kyc_ret' = SubmissionResponse(message)

\* A state request that stores the default state it synthesizes.
Mutant_HandleVerificationStateRequest(message) ==
    /\ kyc_ret' = StateResponse(verification_states, message)
    /\ verification_states' =
           IF message.payload.investor_id \in DOMAIN verification_states
           THEN verification_states
           ELSE (message.payload.investor_id :> DefaultState(message.payload.investor_id))
                    @@ verification_states
    /\ UNCHANGED identity_store

\* _handle_verification_state_request
HandleVerificationStateRequest(message) ==
    /\ kyc_ret' = StateResponse(verification_states, message)
    /\ UNCHANGED <<identity_store, verification_states>>

\* KycAgent.receive_message
KycReceiveMessage(message) ==
    /\ kyc_clock < MaxClock
    /\ kyc_clock' = kyc_clock + 1
    /\ kyc_call' = message
    /\ IF message.message_type = KYC_SUBMISSION
       THEN HandleKycSubmission(message)
       ELSE IF message.message_type = VERIFICATION_STATE_REQUEST
       THEN HandleVerificationStateRequest(message)
       ELSE /\ kyc_ret' = [raised |-> "ValueError", message_type |-> "exception"]
            /\ UNCHANGED <<identity_store, verification_states>>

\* A kyc_submission message as InvestorAgent.submit_kyc builds it.
SubmissionMessage(investor_id, identity_data) ==
    A2AMessage(KYC_SUBMISSION, <<"InvestorAgent-", investor_id>>, KycAgentId, NowIso,
               [investor_id |-> investor_id, identity_data |-> identity_data])

\* A verification_state_request message as a CompanyAgent builds it.
StateRequestMessage(sender, investor_id) ==
    A2AMessage(VERIFICATION_STATE_REQUEST, sender, KycAgentId, NowIso,
               [investor_id |-> investor_id])

\* The authority handles a submission.
SubmitKyc(investor_id, identity_data) ==
    /\ KycReceiveMessage(SubmissionMessage(investor_id, identity_data))
    /\ last_submission' = [last_submission EXCEPT ![investor_id] = identity_data]
    /\ repeat_count' = [repeat_count EXCEPT ![investor_id] =
                            IF last_submission[investor_id] = identity_data
                            THEN @ + 1 ELSE 1]

\* The authority handles a state query.
QueryState(sender, investor_id) ==
    /\ KycReceiveMessage(StateRequestMessage(sender, investor_id))
    /\ UNCHANGED <<last_submission, repeat_count>>

KycNext ==
    \/ \E investor_id \in Investors, identity_data \in IdentityInputs :
           SubmitKyc(investor_id, identity_data) /\ UNCHANGED <<ap2vars, pairvars, compvars, navvars>>
    \/ \E investor_id \in Investors, sender \in Senders :
           QueryState(sender, investor_id) /\ UNCHANGED <<ap2vars, pairvars, compvars, navvars>>
    \/ \E investor_id \in Investors, sender \in Senders :
           /\ KycReceiveMessage(
                  A2AMessage(INVESTMENT_REQUEST, sender, KycAgentId, NowIso,
                             [investor_id |-> investor_id]))
           /\ UNCHANGED <<ap2vars, pairvars, compvars, navvars, last_submission, repeat_count>>

\* The identity_data of main() and an empty one.
IdsIdentityInputs ==
    {IdentityData(SeqRange(RequiredFields) \cup {"email"}, "A"), IdentityData({}, "A")}

\* The authority serves the demonstration's principals and two further ones.
KycIdsNext ==
    \/ \E investor_id \in Investors \cup OtherInvestors, identity_data \in IdsIdentityInputs :
           SubmitKyc(investor_id, identity_data) /\ UNCHANGED <<ap2vars, pairvars, compvars, navvars>>
    \/ \E investor_id \in Investors \cup OtherInvestors, sender \in Senders :
           QueryState(sender, investor_id) /\ UNCHANGED <<ap2vars, pairvars, compvars, navvars>>

\* Two authorities handle the same messages in step; the identity_data submitted
\* to the second has the same fields as the first's and any values.
PairNext ==
    \/ \E investor_id \in Investors, d1 \in IdentityInputs, d2 \in IdentityInputs :
           /\ DOMAIN d1 = DOMAIN d2
           /\ SubmitKyc(investor_id, d1)
           /\ pair_identity_store' =
                  StoreAfterSubmission(pair_identity_store,
                                       SubmissionMessage(investor_id, d2))
           /\ pair_verification_states' =
                  StatesAfterSubmission(pair_verification_states,
                                        SubmissionMessage(investor_id, d2))
           /\ pair_ret' = SubmissionResponse(SubmissionMessage(investor_id, d2))
           /\ UNCHANGED <<ap2vars, compvars, navvars>>
    \/ \E investor_id \in Investors, sender \in Senders :
           /\ QueryState(sender, investor_id)
           /\ pair_ret' = StateResponse(pair_verification_states,
                                        StateRequestMessage(sender, investor_id))
           /\ UNCHANGED <<ap2vars, compvars, navvars, pair_identity_store, pair_verification_states>>


\* ------------------------------------------------------------ CompanyAgent
\* The relying parties of main(), sharing the one KycAgent.
Companies == {"COMP-A", "COMP-B"}

\* CompanyAgent.agent_id
CompanyAgentId(company_id) == "CompanyAgent-" \o company_id

\* TransactionStatus
TransactionStatus_BLOCKED == EnumMember("TransactionStatus", "blocked")
TransactionStatus_PENDING_VERIFICATION == EnumMember("TransactionStatus", "pending_verification")
TransactionStatus_VERIFIED == EnumMember("TransactionStatus", "verified")
TransactionStatus_COMPLETED == EnumMember("TransactionStatus", "completed")
TransactionStatus_FAILED == EnumMember("TransactionStatus", "failed")

\* The amounts requested and whether the request carries the investor's
\* verification id (InvestorState.verification_id) or None.
RequestInputs == {<<50000, FALSE>>, <<75000, TRUE>>}

\* The identity_data of main() and one that lacks the national id.
CompanyIdentityInputs ==
    {IdentityData(SeqRange(RequiredFields) \cup {"email"}, "A"),
     IdentityData(SeqRange(RequiredFields) \ {"national_id"}, "A")}

\* str(uuid.uuid4()) for the k-th transaction id
TransactionId(k) == <<"uuid4", k>>

\* The TransactionState dataclass; __post_init__ stamps it.
TransactionState(transaction_id, investor_id, company_id, amount, status) ==
    [transaction_id |-> transaction_id, investor_id |-> investor_id,
     company_id |-> company_id, amount |-> amount, status |-> status,
     reason |-> None, timestamp |-> NowIso]

\* An investment_request message as InvestorAgent.request_investment builds it.
InvestmentRequestMessage(investor_id, company_id, amount, verification_id) ==
    A2AMessage(INVESTMENT_REQUEST, <<"InvestorAgent-", investor_id>>,
               CompanyAgentId(company_id), NowIso,
               [investor_id |-> investor_id, amount |-> amount,
                verification_id |-> verification_id])

\* A decision that also caps the amount a request may invest.
Mutant_IsApproved_Amount(message, verification_state_dict) ==
    /\ verification_state_dict.kyc_status = EnumValue(VERIFIED)
    /\ "invest" \in SeqRange(verification_state_dict.permissions)
    /\ message.payload.amount <= 50000

\* A decision that also trusts a verification id carried by the request.
Mutant_IsApproved_Carried(message, verification_state_dict) ==
    \/ /\ verification_state_dict.kyc_status = EnumValue(VERIFIED)
       /\ "invest" \in SeqRange(verification_state_dict.permissions)
    \/ message.payload.verification_id # None

\* kyc_status == KycStatus.VERIFIED.value and 'invest' in permissions
IsApproved(message, verification_state_dict) ==
    /\ verification_state_dict.kyc_status = EnumValue(VERIFIED)
    /\ "invest" \in SeqRange(verification_state_dict.permissions)

\* An approval that marks the transaction verified instead of completed.
Mutant_DecidedTransaction(transaction, approved) ==
    IF approved
    THEN [transaction EXCEPT !.status = TransactionStatus_VERIFIED]
    ELSE [transaction EXCEPT
             !.status = TransactionStatus_BLOCKED,
             !.reason = <<"KYC verification required or insufficient permissions">>]

\* The transaction after the decision.
DecidedTransaction(transaction, approved) ==
    IF approved
    THEN [transaction EXCEPT !.status = TransactionStatus_COMPLETED]
    ELSE [transaction EXCEPT
             !.status = TransactionStatus_BLOCKED,
             !.reason = <<"KYC verification required or insufficient permissions">>]

\* The investment_response returned.
InvestmentResponse(company_id, message, transaction, approved) ==
    IF approved
    THEN A2AMessage(INVESTMENT_RESPONSE, CompanyAgentId(company_id),
                    message.sender_agent, NowIso,
                    [transaction_id |-> transaction.transaction_id,
                     status |-> EnumValue(transaction.status),
                     amount |-> message.payload.amount])
    ELSE A2AMessage(INVESTMENT_RESPONSE, CompanyAgentId(company_id),
                    message.sender_agent, NowIso,
                    [transaction_id |-> transaction.transaction_id,
                     status |-> EnumValue(transaction.status),
                     reason |-> transaction.reason])

\* The InvestorState an InvestorAgent is built with.
InvestorState(investor_id) ==
    [investor_id |-> investor_id, kyc_status |-> NOT_VERIFIED, verification_id |-> None]

\* The agents of a2a_kyc_demo.py as their constructors leave them.
VidInit ==
    /\ verification_store = <<>>
    /\ investor_verifications = <<>>
    /\ investor_states =
           [investor_id \in Investors \cup OtherInvestors |-> InvestorState(investor_id)]
    /\ demo_transactions = [company_id \in Companies |-> <<>>]
    /\ demo_clock = 0
    /\ demo_uuid_calls = 0
    /\ demo_call = [message_type |-> "init"]
    /\ demo_kyc_ret = [message_type |-> "init"]
    /\ demo_ret = [message_type |-> "init"]

CompanyInit ==
    /\ transactions = [company_id \in Companies |-> <<>>]
    /\ company_stack = <<>>
    /\ company_uuid_calls = 0
    /\ company_ret = [message_type |-> "init"]
    /\ VidInit

\* _handle_investment_request up to the call of the KycAgent: the transaction
\* is created and stored.
ReceiveInvestmentRequest(company_id, message) ==
    /\ company_stack = <<>>
    /\ company_uuid_calls < MaxTransactions
    /\ kyc_clock < MaxClock
    /\ LET transaction ==
               TransactionState(TransactionId(company_uuid_calls + 1),
                                message.payload.investor_id, company_id,
                                message.payload.amount,
                                TransactionStatus_PENDING_VERIFICATION)
       IN /\ transactions' =
                 [transactions EXCEPT ![company_id] =
                      (transaction.transaction_id :> transaction) @@ @]
          /\ company_stack' =
                 <<[company_id |-> company_id, message |-> message,
                    transaction_id |-> transaction.transaction_id]>>
    /\ company_uuid_calls' = company_uuid_calls + 1
    /\ UNCHANGED <<company_ret, kycvars>>

\* _handle_investment_request from the call of the KycAgent to the return: the
\* state is requested, the decision taken, the transaction updated.
DecideInvestmentRequest ==
    /\ company_stack # <<>>
    /\ LET frame == company_stack[1]
           company_id == frame.company_id
           message == frame.message
           transaction == transactions[company_id][frame.transaction_id]
       IN /\ QueryState(CompanyAgentId(company_id), message.payload.investor_id)
          /\ LET verification_state_dict == kyc_ret'.payload.verification_state
                 approved == IsApproved(message, verification_state_dict)
                 decided == DecidedTransaction(transaction, approved)
             IN /\ transactions' =
                       [transactions EXCEPT ![company_id][frame.transaction_id] = decided]
                /\ company_ret' = InvestmentResponse(company_id, message, decided, approved)
    /\ company_stack' = <<>>
    /\ UNCHANGED company_uuid_calls

\* A submission reaches the authority between two investment requests.
CompanySubmitKyc(investor_id, identity_data) ==
    /\ company_stack = <<>>
    /\ SubmitKyc(investor_id, identity_data)
    /\ UNCHANGED compvars

CompanyNext ==
    \/ \E investor_id \in Investors, company_id \in Companies, input \in RequestInputs :
           /\ ReceiveInvestmentRequest(
                  company_id,
                  InvestmentRequestMessage(
                      investor_id, company_id, input[1],
                      IF input[2] THEN VerificationIdOf(investor_id) ELSE None))
           /\ UNCHANGED <<ap2vars, pairvars, navvars, vidvars>>
    \/ DecideInvestmentRequest /\ UNCHANGED <<ap2vars, pairvars, navvars, vidvars>>
    \/ \E investor_id \in Investors, identity_data \in CompanyIdentityInputs :
           CompanySubmitKyc(investor_id, identity_data) /\ UNCHANGED <<ap2vars, pairvars, navvars>>


\* ------------------------------------------------------------ a2a_kyc_demo.py
\* The agents of a2a_kyc_demo.py: the company asks the authority to confirm the
\* verification id a request carries. InvestorAgent, TransactionState,
\* _verify_identity and the verification id's formula are those of
\* a2a_kyc_enhanced.py, word for word.
DemoKycAgentId == "KycAgent-TrustedIdentity"

\* MessageType: the two members a2a_kyc_enhanced.py does not have
VERIFICATION_REQUEST == "verification_request"
VERIFICATION_RESPONSE == "verification_response"

\* datetime.now().isoformat()
DemoNowIso == <<"iso", demo_clock>>

\* The variables of the agents of a2a_kyc_enhanced.py's CompanyAgent.
entvars == <<transactions, company_stack, company_uuid_calls, company_ret>>

\* Python's truth value of an Optional[str]
Truthy(value) == value # None /\ value # <<"">>

\* The dict _handle_kyc_submission stores under the verification id
VerificationRecord(investor_id, identity_data) ==
    [investor_id |-> investor_id, verified_at |-> DemoNowIso,
     identity_hash |-> Sha256Hex(identity_data), status |-> "verified"]

\* KycAgent._handle_kyc_submission
DemoHandleKycSubmission(message) ==
    LET investor_id == message.payload.investor_id
        identity_data == message.payload.identity_data
        verification_id == VerificationIdOf(investor_id)
    IN IF VerifyIdentity(identity_data)
       THEN /\ verification_store' =
                   (verification_id :> VerificationRecord(investor_id, identity_data))
                       @@ verification_store
            /\ investor_verifications' =
                   (investor_id :> verification_id) @@ investor_verifications
            /\ demo_kyc_ret' =
                   A2AMessage(KYC_VERIFICATION_RESPONSE, DemoKycAgentId,
                              message.sender_agent, DemoNowIso,
                              [verification_status |-> "verified",
                               verification_id |-> verification_id,
                               verified_at |-> DemoNowIso])
       ELSE /\ demo_kyc_ret' =
                   A2AMessage(KYC_VERIFICATION_RESPONSE, DemoKycAgentId,
                              message.sender_agent, DemoNowIso,
                              [verification_status |-> "rejected",
                               reason |-> "Identity verification failed"])
            /\ UNCHANGED <<verification_store, investor_verifications>>

\* A confirmation that does not compare the record's investor with the request's.
Mutant_VerificationConfirmed(store, verification_id, investor_id) ==
    /\ Truthy(verification_id)
    /\ verification_id \in DOMAIN store
    /\ store[verification_id].status = "verified"

\* The two tests of KycAgent._handle_verification_request
VerificationConfirmed(store, verification_id, investor_id) ==
    /\ Truthy(verification_id)
    /\ verification_id \in DOMAIN store
    /\ store[verification_id].investor_id = investor_id
    /\ store[verification_id].status = "verified"

\* KycAgent._handle_verification_request: the VERIFICATION_RESPONSE returned
VerificationResponse(store, message) ==
    LET verification_id == message.payload.verification_id
        investor_id == message.payload.investor_id
    IN IF VerificationConfirmed(store, verification_id, investor_id)
       THEN A2AMessage(VERIFICATION_RESPONSE, DemoKycAgentId, message.sender_agent,
                       DemoNowIso,
                       [verification_status |-> "confirmed",
                        investor_id |-> investor_id,
                        verified_at |-> store[verification_id].verified_at])
       ELSE A2AMessage(VERIFICATION_RESPONSE, DemoKycAgentId, message.sender_agent,
                       DemoNowIso,
                       [verification_status |-> "not_verified",
                        investor_id |-> investor_id])

\* The verification_request message the CompanyAgent builds
VerificationRequestMessage(company_id, investor_id, verification_id) ==
    A2AMessage(VERIFICATION_REQUEST, CompanyAgentId(company_id), DemoKycAgentId,
               DemoNowIso,
               [investor_id |-> investor_id, verification_id |-> verification_id])

\* The transaction after CompanyAgent._handle_investment_request has decided
DemoDecidedTransaction(transaction, carried, confirmed) ==
    IF ~carried
    THEN [transaction EXCEPT !.status = TransactionStatus_BLOCKED,
                             !.reason = <<"KYC verification required">>]
    ELSE IF confirmed
    THEN [transaction EXCEPT !.status = TransactionStatus_COMPLETED]
    ELSE [transaction EXCEPT !.status = TransactionStatus_BLOCKED,
                             !.reason = <<"KYC verification not confirmed">>]

\* The investment_response CompanyAgent._handle_investment_request returns
DemoInvestmentResponse(company_id, message, transaction, verification_response) ==
    A2AMessage(INVESTMENT_RESPONSE, CompanyAgentId(company_id), message.sender_agent,
               DemoNowIso,
               IF transaction.status = TransactionStatus_COMPLETED
               THEN [transaction_id |-> transaction.transaction_id,
                     status |-> EnumValue(transaction.status),
                     amount |-> message.payload.amount,
                     verified_at |-> verification_response.payload.verified_at]
               ELSE [transaction_id |-> transaction.transaction_id,
                     status |-> EnumValue(transaction.status),
                     reason |-> transaction.reason])

\* CompanyAgent._handle_investment_request, the call of the KycAgent included
DemoHandleInvestmentRequest(company_id, message) ==
    /\ demo_uuid_calls < MaxTransactions
    /\ demo_clock < MaxClock
    /\ LET investor_id == message.payload.investor_id
           verification_id == message.payload.verification_id
           transaction ==
               [TransactionState(TransactionId(demo_uuid_calls + 1), investor_id,
                                 company_id, message.payload.amount,
                                 TransactionStatus_PENDING_VERIFICATION)
                    EXCEPT !.timestamp = DemoNowIso]
           carried == Truthy(verification_id)
           verification_response ==
               VerificationResponse(
                   verification_store,
                   VerificationRequestMessage(company_id, investor_id, verification_id))
           confirmed == verification_response.payload.verification_status = "confirmed"
           decided == DemoDecidedTransaction(transaction, carried, confirmed)
       IN /\ demo_transactions' =
                 [demo_transactions EXCEPT ![company_id] =
                      (transaction.transaction_id :> decided) @@ @]
          /\ demo_kyc_ret' = IF carried THEN verification_response ELSE demo_kyc_ret
          /\ demo_ret' = DemoInvestmentResponse(company_id, message, decided,
                                                verification_response)
    /\ demo_call' = message
    /\ demo_uuid_calls' = demo_uuid_calls + 1
    /\ demo_clock' = demo_clock + 1
    /\ UNCHANGED <<verification_store, investor_verifications, investor_states>>

\* InvestorAgent.submit_kyc
DemoSubmitKyc(investor_id, identity_data) ==
    /\ demo_clock < MaxClock
    /\ LET message == A2AMessage(KYC_SUBMISSION, <<"InvestorAgent-", investor_id>>,
                                 DemoKycAgentId, DemoNowIso,
                                 [investor_id |-> investor_id,
                                  identity_data |-> identity_data])
       IN /\ DemoHandleKycSubmission(message)
          /\ demo_call' = message
          /\ investor_states' =
                 [investor_states EXCEPT ![investor_id] =
                      IF demo_kyc_ret'.payload.verification_status = "verified"
                      THEN [@ EXCEPT !.kyc_status = VERIFIED,
                                     !.verification_id =
                                         demo_kyc_ret'.payload.verification_id]
                      ELSE [@ EXCEPT !.kyc_status = REJECTED]]
    /\ demo_clock' = demo_clock + 1
    /\ UNCHANGED <<demo_transactions, demo_uuid_calls, demo_ret>>

\* InvestorAgent.request_investment: the request carries the id the investor holds
DemoRequestInvestment(investor_id, company_id, amount) ==
    DemoHandleInvestmentRequest(
        company_id,
        InvestmentRequestMessage(investor_id, company_id, amount,
                                 investor_states[investor_id].verification_id))

\* The verification ids a request is made to carry by any sender: none, the
\* empty string, an id the authority never issued, and the ids of the principals.
CarriedIds ==
    {None, <<"">>, <<"KYC-", Upper("000000000000")>>}
        \cup {VerificationIdOf(investor_id) : investor_id \in Investors \cup OtherInvestors}

\* The principals of a2a_kyc_demo's runs: INV-001 of main(), a second one and
\* one whose verification id is that of another.
VidInvestors == {"INV-001", "INV-866198", "INV-27990033"}

\* a2a_kyc_demo's agents served by any sender.
VidNext ==
    \/ \E investor_id \in VidInvestors, identity_data \in CompanyIdentityInputs :
           DemoSubmitKyc(investor_id, identity_data)
               /\ UNCHANGED <<ap2vars, kycvars, pairvars, navvars, entvars>>
    \/ \E investor_id \in VidInvestors :
           DemoRequestInvestment(investor_id, "COMP-A", 50000)
               /\ UNCHANGED <<ap2vars, kycvars, pairvars, navvars, entvars>>
    \/ \E investor_id \in VidInvestors, verification_id \in CarriedIds :
           DemoHandleInvestmentRequest(
               "COMP-B",
               InvestmentRequestMessage(investor_id, "COMP-B", 75000, verification_id))
               /\ UNCHANGED <<ap2vars, kycvars, pairvars, navvars, entvars>>

\* The same submission reaches the authority of a2a_kyc_enhanced and that of
\* a2a_kyc_demo.
AgreeSubmit(investor_id, identity_data) ==
    /\ company_stack = <<>>
    /\ SubmitKyc(investor_id, identity_data)
    /\ DemoSubmitKyc(investor_id, identity_data)
    /\ UNCHANGED entvars

\* The same investment request, built by InvestorAgent.request_investment,
\* reaches the company of a2a_kyc_enhanced and that of a2a_kyc_demo, which
\* answers it.
AgreeRequest(investor_id, company_id, amount) ==
    LET message == InvestmentRequestMessage(investor_id, company_id, amount,
                                            investor_states[investor_id].verification_id)
    IN /\ ReceiveInvestmentRequest(company_id, message)
       /\ DemoHandleInvestmentRequest(company_id, message)

\* The company of a2a_kyc_enhanced answers the request.
AgreeDecide == DecideInvestmentRequest /\ UNCHANGED vidvars

\* The two implementations are given the same submissions and requests.
AgreeNext ==
    \/ \E investor_id \in VidInvestors, identity_data \in CompanyIdentityInputs :
           AgreeSubmit(investor_id, identity_data) /\ UNCHANGED <<ap2vars, pairvars, navvars>>
    \/ \E investor_id \in VidInvestors, company_id \in Companies :
           AgreeRequest(investor_id, company_id, 50000) /\ UNCHANGED <<ap2vars, pairvars, navvars>>
    \/ AgreeDecide /\ UNCHANGED <<ap2vars, pairvars, navvars>>

\* ---------------------------------------------- AgentNav._resolve_parameters
\* A Python str is the sequence of its characters; a value is a pair of its
\* type and its content.
PyStr(chars) == <<"str", chars>>
PyFloat(x) == <<"float", x>>
PyDict(d) == <<"dict", d>>
IsStr(value) == value[1] = "str"

\* The strings used as keys, step references and field names.
S_step1 == <<"s", "t", "e", "p", "1">>
S_step2 == <<"s", "t", "e", "p", "2">>
S_step3 == <<"s", "t", "e", "p", "3">>
S_data == <<"d", "a", "t", "a">>
S_success == <<"s", "u", "c", "c", "e", "s", "s">>
S_workspace_id == <<"w", "o", "r", "k", "s", "p", "a", "c", "e", "_", "i", "d">>
S_payment_id == <<"p", "a", "y", "m", "e", "n", "t", "_", "i", "d">>
S_x == <<"x">>

\* str.startswith, str.endswith
StartsWith(str, prefix) ==
    Len(str) >= Len(prefix) /\ SubSeq(str, 1, Len(prefix)) = prefix
EndsWith(str, suffix) ==
    Len(str) >= Len(suffix) /\ SubSeq(str, Len(str) - Len(suffix) + 1, Len(str)) = suffix

\* value[2:-1]
Slice2ToLast(str) == SubSeq(str, 3, Len(str) - 1)

\* str.split(sep) for a separator of one character
RECURSIVE Split(_, _)
Split(str, sep) ==
    IF \E i \in DOMAIN str : str[i] = sep
    THEN LET i == CHOOSE i \in DOMAIN str :
                      str[i] = sep /\ \A j \in 1..(i - 1) : str[j] # sep
         IN <<SubSeq(str, 1, i - 1)>> \o Split(SubSeq(str, i + 1, Len(str)), sep)
    ELSE <<str>>

\* A reference written with parentheses, "$(step_ref.field)".
Mutant_Placeholder(step_ref, field) ==
    PyStr(<<"$", "(">> \o step_ref \o <<".">> \o field \o <<")">>)

\* "${" + step_ref + "." + field + "}"
Placeholder(step_ref, field) ==
    PyStr(<<"$", "{">> \o step_ref \o <<".">> \o field \o <<"}">>)

\* Results as the tools return them: an ActionResult with its data envelope, an
\* AP2 receipt, a failed action, and results holding workspace_id at the top
\* level beside a data envelope that holds it too or does not.
StepResults ==
    {(S_success :> <<"bool", TRUE>>)
         @@ (S_data :> PyDict(S_workspace_id :> PyStr(<<"W", "S", "-", "9">>))),
     (S_success :> <<"bool", TRUE>>)
         @@ (S_payment_id :> PyStr(<<"P", "A", "Y", "-", "1">>)),
     (S_success :> <<"bool", FALSE>>),
     (S_workspace_id :> PyStr(<<"t", "o", "p">>))
         @@ (S_data :> PyDict(S_workspace_id :> PyStr(<<"n", "e", "s", "t", "e", "d">>))),
     (S_workspace_id :> PyStr(<<"t", "o", "p">>))
         @@ (S_data :> PyDict(S_payment_id :> PyStr(<<"P", "A", "Y", "-", "2">>)))}

\* The execution contexts: results of any of steps 1 and 2.
Contexts ==
    UNION {[steps -> StepResults] : steps \in SUBSET {S_step1, S_step2}}

\* Parameter values: references, malformed references and literals.
ParameterValues ==
    {Placeholder(S_step1, S_workspace_id), Placeholder(S_step2, S_workspace_id),
     Placeholder(S_step1, S_payment_id), Placeholder(S_step2, S_data),
     Placeholder(S_step3, S_workspace_id),
     Placeholder(S_step1, S_workspace_id \o <<".">> \o S_x),
     PyStr(<<"$", "{">> \o S_step1 \o <<"}">>),
     PyStr(<<"$", "{">> \o S_step1 \o <<".">> \o S_workspace_id),
     PyStr(<<"h", "i">>),
     PyFloat(50)}

\* A lookup that tries the top level of the result before its data envelope.
Mutant_LookupField(step_result, field, value) ==
    IF field \in DOMAIN step_result
    THEN step_result[field]
    ELSE IF S_data \in DOMAIN step_result /\ field \in DOMAIN step_result[S_data][2]
    THEN step_result[S_data][2][field]
    ELSE value

\* The navigation of one step result (nav.py lines 280-286).
LookupField(step_result, field, value) ==
    IF S_data \in DOMAIN step_result /\ field \in DOMAIN step_result[S_data][2]
    THEN step_result[S_data][2][field]
    ELSE IF field \in DOMAIN step_result
    THEN step_result[field]
    ELSE value

\* A loop body that indexes the context without testing for the step.
Mutant_ResolveValue(value, context) ==
    IF IsStr(value) /\ StartsWith(value[2], <<"$", "{">>) /\ EndsWith(value[2], <<"}">>)
    THEN LET ref == Slice2ToLast(value[2])
             parts == Split(ref, ".")
         IN IF Len(parts) = 2
            THEN IF parts[1] \in DOMAIN context
                 THEN LookupField(context[parts[1]], parts[2], value)
                 ELSE <<"raised", "KeyError">>
            ELSE value
    ELSE value

\* The body of _resolve_parameters' loop for one value.
ResolveValue(value, context) ==
    IF IsStr(value) /\ StartsWith(value[2], <<"$", "{">>) /\ EndsWith(value[2], <<"}">>)
    THEN LET ref == Slice2ToLast(value[2])
             parts == Split(ref, ".")
         IN IF Len(parts) = 2
            THEN IF parts[1] \in DOMAIN context
                 THEN LookupField(context[parts[1]], parts[2], value)
                 ELSE value
            ELSE value
    ELSE value

\* _resolve_parameters
ResolveParameters(parameters, context) ==
    [key \in DOMAIN parameters |-> ResolveValue(parameters[key], context)]

\* A resolver that writes the resolved values into the dict it was given.
Mutant_ParametersAfterResolve(parameters, context) ==
    ResolveParameters(parameters, context)

\* The caller's dict after _resolve_parameters: every write goes to the fresh
\* dict `resolved`, none to `parameters`.
ParametersAfterResolve(parameters, context) == parameters

\* self.execution_context after _resolve_parameters, which only reads it.
ContextAfterResolve(parameters, context) == context

\* ------------------------------------------------------------ Python values
\* Further types, beside str, float and dict above.
PyBool(b) == <<"bool", b>>
PyInt(n) == <<"int", n>>
PyList(seq) == <<"list", seq>>
PyNone == <<"NoneType", "None">>

\* A value the format code `.2f` and the product `25.0 * value` accept.
IsNumber(value) == value[1] \in {"int", "float"}

\* dict.get(key, default)
Get(dict, key, default) == IF key \in DOMAIN dict THEN dict[key] ELSE default

\* str(n) for a natural number n
DigitChars == <<"0", "1", "2", "3", "4", "5", "6", "7", "8", "9">>
RECURSIVE Str(_)
Str(n) == IF n < 10 THEN <<DigitChars[n + 1]>> ELSE Str(n \div 10) \o <<DigitChars[(n % 10) + 1]>>

\* str.lower()
UpperChars == <<"A", "B", "C", "D", "E", "F", "G", "H", "I", "J", "K", "L", "M", "N", "O", "P", "Q", "R", "S", "T", "U", "V", "W", "X", "Y", "Z">>
LowerChars == <<"a", "b", "c", "d", "e", "f", "g", "h", "i", "j", "k", "l", "m", "n", "o", "p", "q", "r", "s", "t", "u", "v", "w", "x", "y", "z">>
Lower(str) ==
    [i \in DOMAIN str |->
         IF \E j \in DOMAIN UpperChars : UpperChars[j] = str[i]
         THEN LowerChars[CHOOSE j \in DOMAIN UpperChars : UpperChars[j] = str[i]]
         ELSE str[i]]

\* sub in str
Contains(str, sub) ==
    \E i \in 1..(Len(str) - Len(sub) + 1) : SubSeq(str, i, i + Len(sub) - 1) = sub

\* str(uuid.uuid4()) for the k-th uuid Kai, Nav and the MCP server draw, and its
\* slices [:8] and [:6]: distinct uuids are taken to differ in their first six
\* characters.
UuidStr(k) == <<"#">> \o Str(k)

\* The strings used as keys, action names and values.
S_AUTH == <<"A", "U", "T", "H", "-">>
S_BK == <<"B", "K", "-">>
S_EXEC == <<"E", "X", "E", "C", "-">>
S_NT == <<"N", "T", "-">>
S_PAY == <<"P", "A", "Y", "-">>
S_PLAN == <<"P", "L", "A", "N", "-">>
S_Payment == <<"P", "a", "y", "m", "e", "n", "t">>
S_RCP == <<"R", "C", "P", "-">>
S_TXN == <<"T", "X", "N", "-">>
S_TypeError == <<"c", "a", "n", "'", "t", " ", "m", "u", "l", "t", "i", "p", "l", "y", " ", "s", "e", "q", "u", "e", "n", "c", "e", " ", "b", "y", " ", "n", "o", "n", "-", "i", "n", "t", " ", "o", "f", " ", "t", "y", "p", "e", " ", "'", "f", "l", "o", "a", "t", "'">>
S_UNKNOWN == <<"U", "N", "K", "N", "O", "W", "N">>
S_USD == <<"U", "S", "D">>
S_WS == <<"W", "S", "-">>
S_action_name == <<"a", "c", "t", "i", "o", "n", "_", "n", "a", "m", "e">>
S_agent_kai == <<"a", "g", "e", "n", "t", "_", "k", "a", "i">>
S_agent_nav == <<"a", "g", "e", "n", "t", "_", "n", "a", "v">>
S_amenities == <<"a", "m", "e", "n", "i", "t", "i", "e", "s">>
S_amount == <<"a", "m", "o", "u", "n", "t">>
S_analysis_type == <<"a", "n", "a", "l", "y", "s", "i", "s", "_", "t", "y", "p", "e">>
S_analyze_data == <<"a", "n", "a", "l", "y", "z", "e", "_", "d", "a", "t", "a">>
S_book == <<"b", "o", "o", "k">>
S_booking_id == <<"b", "o", "o", "k", "i", "n", "g", "_", "i", "d">>
S_cancel_booking == <<"c", "a", "n", "c", "e", "l", "_", "b", "o", "o", "k", "i", "n", "g">>
S_check_in_time == <<"c", "h", "e", "c", "k", "_", "i", "n", "_", "t", "i", "m", "e">>
S_completed == <<"c", "o", "m", "p", "l", "e", "t", "e", "d">>
S_completed_at == <<"c", "o", "m", "p", "l", "e", "t", "e", "d", "_", "a", "t">>
S_comprehensive == <<"c", "o", "m", "p", "r", "e", "h", "e", "n", "s", "i", "v", "e">>
S_confirm_booking == <<"c", "o", "n", "f", "i", "r", "m", "_", "b", "o", "o", "k", "i", "n", "g">>
S_confirmation_code == <<"c", "o", "n", "f", "i", "r", "m", "a", "t", "i", "o", "n", "_", "c", "o", "d", "e">>
S_confirmed == <<"c", "o", "n", "f", "i", "r", "m", "e", "d">>
S_create_task == <<"c", "r", "e", "a", "t", "e", "_", "t", "a", "s", "k">>
S_created_at == <<"c", "r", "e", "a", "t", "e", "d", "_", "a", "t">>
S_currency == <<"c", "u", "r", "r", "e", "n", "c", "y">>
S_database == <<"d", "a", "t", "a", "b", "a", "s", "e">>
S_sent == <<"s", "e", "n", "t">>
S_delivery_status == <<"d", "e", "l", "i", "v", "e", "r", "y", "_", "s", "t", "a", "t", "u", "s">>
S_depth == <<"d", "e", "p", "t", "h">>
S_duration == <<"d", "u", "r", "a", "t", "i", "o", "n">>
S_duration_hours == <<"d", "u", "r", "a", "t", "i", "o", "n", "_", "h", "o", "u", "r", "s">>
S_error == <<"e", "r", "r", "o", "r">>
S_failed == <<"f", "a", "i", "l", "e", "d">>
S_find_workspace == <<"f", "i", "n", "d", "_", "w", "o", "r", "k", "s", "p", "a", "c", "e">>
S_format_error == <<"U", "n", "k", "n", "o", "w", "n", " ", "f", "o", "r", "m", "a", "t", " ", "c", "o", "d", "e", " ", "'", "f", "'", " ", "f", "o", "r", " ", "o", "b", "j", "e", "c", "t", " ", "o", "f", " ", "t", "y", "p", "e", " ", "'", "s", "t", "r", "'">>
S_gather_information == <<"g", "a", "t", "h", "e", "r", "_", "i", "n", "f", "o", "r", "m", "a", "t", "i", "o", "n">>
S_general == <<"g", "e", "n", "e", "r", "a", "l">>
S_location == <<"l", "o", "c", "a", "t", "i", "o", "n">>
S_message == <<"m", "e", "s", "s", "a", "g", "e">>
S_metadata == <<"m", "e", "t", "a", "d", "a", "t", "a">>
S_notification_id == <<"n", "o", "t", "i", "f", "i", "c", "a", "t", "i", "o", "n", "_", "i", "d">>
S_now == <<"n", "o", "w">>
S_pending == <<"p", "e", "n", "d", "i", "n", "g">>
S_premium == <<"p", "r", "e", "m", "i", "u", "m">>
S_price_per_hour == <<"p", "r", "i", "c", "e", "_", "p", "e", "r", "_", "h", "o", "u", "r">>
S_purpose == <<"p", "u", "r", "p", "o", "s", "e">>
S_ready == <<"r", "e", "a", "d", "y">>
S_receipt_id == <<"r", "e", "c", "e", "i", "p", "t", "_", "i", "d">>
S_recipient == <<"r", "e", "c", "i", "p", "i", "e", "n", "t">>
S_request_payment == <<"r", "e", "q", "u", "e", "s", "t", "_", "p", "a", "y", "m", "e", "n", "t">>
S_research == <<"r", "e", "s", "e", "a", "r", "c", "h">>
S_running == <<"r", "u", "n", "n", "i", "n", "g">>
S_send_notification == <<"s", "e", "n", "d", "_", "n", "o", "t", "i", "f", "i", "c", "a", "t", "i", "o", "n">>
S_sent_at == <<"s", "e", "n", "t", "_", "a", "t">>
S_sources == <<"s", "o", "u", "r", "c", "e", "s">>
S_status == <<"s", "t", "a", "t", "u", "s">>
S_status_update == <<"s", "t", "a", "t", "u", "s", "_", "u", "p", "d", "a", "t", "e">>
S_step == <<"s", "t", "e", "p">>
S_summary == <<"s", "u", "m", "m", "a", "r", "y">>
S_task_delegation == <<"t", "a", "s", "k", "_", "d", "e", "l", "e", "g", "a", "t", "i", "o", "n">>
S_task_id == <<"t", "a", "s", "k", "_", "i", "d">>
S_task_name == <<"t", "a", "s", "k", "_", "n", "a", "m", "e">>
S_timestamp == <<"t", "i", "m", "e", "s", "t", "a", "m", "p">>
S_topic == <<"t", "o", "p", "i", "c">>
S_total_price == <<"t", "o", "t", "a", "l", "_", "p", "r", "i", "c", "e">>
S_transaction_id == <<"t", "r", "a", "n", "s", "a", "c", "t", "i", "o", "n", "_", "i", "d">>
S_type == <<"t", "y", "p", "e">>
S_user_email == <<"u", "s", "e", "r", "_", "e", "m", "a", "i", "l">>
S_user_email_value == <<"u", "s", "e", "r", "@", "e", "x", "a", "m", "p", "l", "e", ".", "c", "o", "m">>
S_web == <<"w", "e", "b">>
S_workspace == <<"w", "o", "r", "k", "s", "p", "a", "c", "e">>

\* datetime.utcnow().isoformat(): the orchestrator's time stamps are not told apart.
UtcNow == PyStr(S_now)

\* ------------------------------------------------------ AgentKai (kai.py)
\* PlanStep, as asdict() passes it on; the description is left out.
PlanStep(step_number, action, parameters, dependencies) ==
    [step_number |-> step_number, action |-> action, parameters |-> parameters,
     dependencies |-> dependencies, assigned_to |-> S_agent_nav]

\* _plan_workspace_booking
PlanWorkspaceBooking(context) ==
    LET duration == Get(context, S_duration_hours, PyInt(2))
        workspace_type == Get(context, S_type, PyStr(S_premium))
    IN <<PlanStep(1, S_create_task,
                  (S_task_name :> PyStr(<<"B", "o", "o", "k", " ", "p", "r", "e", "m", "i", "u", "m", " ", "w", "o", "r", "k", "s", "p", "a", "c", "e">>))
                      @@ (S_metadata :> PyDict((S_duration :> duration)
                                                  @@ (S_type :> workspace_type))),
                  <<>>),
         PlanStep(2, S_find_workspace,
                  (S_duration_hours :> duration) @@ (S_type :> workspace_type),
                  <<1>>),
         PlanStep(3, S_request_payment,
                  (S_amount :> PyFloat(25 * duration[2]))
                      @@ (S_purpose :> PyStr(workspace_type[2] \o <<" ", "w", "o", "r", "k", "s", "p", "a", "c", "e", " ", "f", "o", "r", " ">>
                                                 \o Str(duration[2]) \o <<"h">>)),
                  <<2>>),
         PlanStep(4, S_confirm_booking,
                  (S_workspace_id :> Placeholder(S_step2, S_workspace_id))
                      @@ (S_payment_id :> Placeholder(S_step3, S_payment_id)),
                  <<3>>),
         PlanStep(5, S_send_notification,
                  (S_recipient :> PyStr(S_user_email_value))
                      @@ (S_message :> PyStr(<<"W", "o", "r", "k", "s", "p", "a", "c", "e", " ", "b", "o", "o", "k", "i", "n", "g", " ", "c", "o", "n", "f", "i", "r", "m", "e", "d", "!">>)),
                  <<4>>)>>

\* _plan_research_task
PlanResearchTask(context) ==
    LET topic == Get(context, S_topic, PyStr(S_general))
    IN <<PlanStep(1, S_create_task,
                  (S_task_name :> PyStr(<<"R", "e", "s", "e", "a", "r", "c", "h", ":", " ">> \o topic[2]))
                      @@ (S_metadata :> PyDict(context)),
                  <<>>),
         PlanStep(2, S_gather_information,
                  (S_topic :> topic)
                      @@ (S_sources :> PyList(<<PyStr(S_web), PyStr(S_database)>>)),
                  <<1>>),
         PlanStep(3, S_analyze_data,
                  (S_analysis_type :> PyStr(S_summary)),
                  <<2>>)>>

\* _plan_generic_task
PlanGenericTask(goal, context) ==
    <<PlanStep(1, S_create_task,
               (S_task_name :> PyStr(goal)) @@ (S_metadata :> PyDict(context)),
               <<>>)>>

\* "PLAN-" + str(uuid.uuid4())[:8]
PlanId(k) == S_PLAN \o UuidStr(k)

\* _create_plan
CreatePlan(goal, context, k) ==
    [plan_id |-> PlanId(k),
     goal |-> goal,
     steps |-> IF Contains(Lower(goal), S_book) /\ Contains(Lower(goal), S_workspace)
               THEN PlanWorkspaceBooking(context)
               ELSE IF Contains(Lower(goal), S_research)
               THEN PlanResearchTask(context)
               ELSE PlanGenericTask(goal, context),
     status |-> S_ready]

\* The A2AMessage of agents/messages.py; ids and time stamps are left out.
NavMessage(message_type, payload) ==
    [from_agent |-> S_agent_kai, to_agent |-> S_agent_nav,
     message_type |-> message_type, payload |-> payload]

\* delegate_to_nav: one task_delegation message per step, in the plan's order
DelegateToNav(plan) ==
    [i \in DOMAIN plan.steps |->
         NavMessage(S_task_delegation,
                    [plan_id |-> plan.plan_id, step |-> plan.steps[i], goal |-> plan.goal])]

\* ---------------------------------------------- MCPServer (mcp_server/server.py)
\* create_task's return value
CreateTaskResult(task_id, task_name) ==
    (S_success :> PyBool(TRUE)) @@ (S_task_id :> PyStr(task_id))
        @@ (S_task_name :> task_name) @@ (S_status :> PyStr(S_pending))
        @@ (S_created_at :> UtcNow)

\* The Task create_task stores
Task(task_id, task_name, metadata) ==
    [task_id |-> task_id, task_name |-> task_name, metadata |-> metadata,
     status |-> S_pending, result |-> PyNone]

\* self.action_handlers
ActionHandlers == {S_find_workspace, S_confirm_booking, S_send_notification}

\* The number of uuid4() values an action handler draws
HandlerDraws(action_name) ==
    IF action_name = S_confirm_booking THEN 2
    ELSE IF action_name \in ActionHandlers THEN 1 ELSE 0

\* _find_workspace
FindWorkspace(parameters, k) ==
    LET duration == Get(parameters, S_duration_hours, PyInt(1))
        workspace_type == Get(parameters, S_type, PyStr(S_premium))
    IN (S_workspace_id :> PyStr(S_WS \o UuidStr(k + 1)))
           @@ (S_type :> workspace_type)
           @@ (S_duration_hours :> duration)
           @@ (S_price_per_hour :> PyFloat(25))
           @@ (S_total_price :> PyFloat(25 * duration[2]))
           @@ (S_location :> PyStr(<<"D", "o", "w", "n", "t", "o", "w", "n", " ", "T", "e", "c", "h", " ", "H", "u", "b">>))
           @@ (S_amenities :> PyList(<<PyStr(<<"H", "i", "g", "h", "-", "s", "p", "e", "e", "d", " ", "W", "i", "F", "i">>),
                                       PyStr(<<"S", "t", "a", "n", "d", "i", "n", "g", " ", "d", "e", "s", "k">>),
                                       PyStr(<<"C", "o", "f", "f", "e", "e", " ", "b", "a", "r">>)>>))

\* _confirm_booking
ConfirmBooking(parameters, k) ==
    (S_booking_id :> PyStr(S_BK \o UuidStr(k + 1)))
        @@ (S_workspace_id :> Get(parameters, S_workspace_id, PyNone))
        @@ (S_payment_id :> Get(parameters, S_payment_id, PyNone))
        @@ (S_status :> PyStr(S_confirmed))
        @@ (S_confirmation_code :> PyStr(UuidStr(k + 2)))
        @@ (S_check_in_time :> PyStr(<<"2", "0", "2", "5", "-", "1", "2", "-", "2", "2", "T", "1", "8", ":", "0", "0", ":", "0", "0", "Z">>))

\* _send_notification
SendNotification(parameters, k) ==
    (S_notification_id :> PyStr(S_NT \o UuidStr(k + 1)))
        @@ (S_recipient :> Get(parameters, S_recipient, PyStr(S_user_email_value)))
        @@ (S_message :> Get(parameters, S_message, PyStr(<<>>)))
        @@ (S_sent_at :> UtcNow)
        @@ (S_delivery_status :> PyStr(S_sent))

\* The dict execute_action returns when the action is unknown or its handler raises
ActionFailure(action_name, error) ==
    (S_success :> PyBool(FALSE)) @@ (S_action_name :> PyStr(action_name))
        @@ (S_error :> PyStr(error)) @@ (S_timestamp :> UtcNow)

\* asdict(ActionResult(action_name, True, data, timestamp))
ActionResult(action_name, data) ==
    (S_action_name :> PyStr(action_name)) @@ (S_success :> PyBool(TRUE))
        @@ (S_data :> PyDict(data)) @@ (S_timestamp :> UtcNow) @@ (S_error :> PyNone)

\* execute_action; k uuids were drawn before the call
ExecuteAction(action_name, parameters, k) ==
    IF action_name \notin ActionHandlers
    THEN ActionFailure(action_name, <<"U", "n", "k", "n", "o", "w", "n", " ", "a", "c", "t", "i", "o", "n", ":", " ">> \o action_name)
    ELSE IF action_name = S_find_workspace
    THEN IF IsNumber(Get(parameters, S_duration_hours, PyInt(1)))
         THEN ActionResult(action_name, FindWorkspace(parameters, k))
         ELSE ActionFailure(action_name, S_TypeError)
    ELSE IF action_name = S_confirm_booking
    THEN ActionResult(action_name, ConfirmBooking(parameters, k))
    ELSE ActionResult(action_name, SendNotification(parameters, k))

\* ------------------------------------------------ AgentNav (agents/nav.py)
\* nav_frame when no call of receive_a2a_message is in progress
NavIdle == <<>>

\* "EXEC-" + str(uuid.uuid4())[:8]
ExecutionId(k) == S_EXEC \o UuidStr(k)

\* f"step{step['step_number']}"
StepKey(step_number) == S_step \o Str(step_number)

\* payload.get("plan_id", "UNKNOWN")
PlanIdOf(payload) == IF "plan_id" \in DOMAIN payload THEN payload.plan_id ELSE S_UNKNOWN

\* A record that is created in the dataclass's first status, "pending".
Mutant_TaskExecution(execution_id, plan_id, step) ==
    [execution_id |-> execution_id, plan_id |-> plan_id,
     step_number |-> step.step_number, action |-> step.action,
     status |-> S_pending, started_at |-> UtcNow, completed_at |-> PyNone,
     result |-> PyNone, error |-> PyNone]

\* The TaskExecution _handle_task_delegation creates, status "running".
TaskExecution(execution_id, plan_id, step) ==
    [execution_id |-> execution_id, plan_id |-> plan_id,
     step_number |-> step.step_number, action |-> step.action,
     status |-> S_running, started_at |-> UtcNow, completed_at |-> PyNone,
     result |-> PyNone, error |-> PyNone]

\* The record after the try block
CompletedExecution(execution, result) ==
    [execution EXCEPT !.status = S_completed, !.completed_at = UtcNow,
                      !.result = PyDict(result)]

\* A failure that is recorded as a completion without a result.
Mutant_FailedExecution(execution, error) ==
    [execution EXCEPT !.status = S_completed, !.completed_at = UtcNow]

\* The record after the except block
FailedExecution(execution, error) ==
    [execution EXCEPT !.status = S_failed, !.completed_at = UtcNow,
                      !.error = PyStr(error)]

\* The dicts _handle_task_delegation returns
SuccessReturn(execution, result) ==
    [success |-> TRUE, execution_id |-> execution.execution_id,
     step_number |-> execution.step_number, action |-> execution.action,
     result |-> result]
FailureReturn(execution, error) ==
    [success |-> FALSE, execution_id |-> execution.execution_id,
     step_number |-> execution.step_number, action |-> execution.action,
     error |-> error]

\* result.get("success") on a dict receive_a2a_message returned
Succeeded(ret) == "success" \in DOMAIN ret /\ ret.success

\* A try block that stores every result under the one key "step".
Mutant_CompleteStep(execution, result) ==
    /\ executions' =
           (execution.execution_id :> CompletedExecution(execution, result)) @@ executions
    /\ execution_context' = (S_step :> result) @@ execution_context
    /\ context_plan' = (S_step :> execution.plan_id) @@ context_plan
    /\ nav_ret' = SuccessReturn(execution, result)
    /\ nav_frame' = NavIdle

\* The try block's end: the record is completed, the result stored in the
\* context under the step's key and returned.
CompleteStep(execution, result) ==
    /\ executions' =
           (execution.execution_id :> CompletedExecution(execution, result)) @@ executions
    /\ execution_context' =
           (StepKey(execution.step_number) :> result) @@ execution_context
    /\ context_plan' =
           (StepKey(execution.step_number) :> execution.plan_id) @@ context_plan
    /\ nav_ret' = SuccessReturn(execution, result)
    /\ nav_frame' = NavIdle

\* The except block: the record is failed and the error returned.
FailStep(execution, error) ==
    /\ executions' =
           (execution.execution_id :> FailedExecution(execution, error)) @@ executions
    /\ nav_ret' = FailureReturn(execution, error)
    /\ nav_frame' = NavIdle
    /\ UNCHANGED <<execution_context, context_plan>>

\* The AP2 engine's ids and strings as the Python strings they are.
Ap2IdStr(id) ==
    (CASE id[1] = "PAY-" -> S_PAY
       [] id[1] = "AUTH-" -> S_AUTH
       [] id[1] = "RCP-" -> S_RCP
       [] id[1] = "TXN-" -> S_TXN
       [] id[1] = "UPPER8" -> <<>>) \o <<"@">> \o Str(id[2])
CurrencyStr(currency) == CASE currency = "USD" -> S_USD

\* The dict confirm_payment returned, which _handle_payment_flow returns as the
\* step's result.
ReceiptDict(receipt) ==
    (S_success :> PyBool(receipt.success))
        @@ (S_receipt_id :> PyStr(Ap2IdStr(receipt.receipt_id)))
        @@ (S_payment_id :> PyStr(Ap2IdStr(receipt.payment_id)))
        @@ (S_transaction_id :> PyStr(Ap2IdStr(receipt.transaction_id)))
        @@ (S_amount :> PyFloat(receipt.amount))
        @@ (S_currency :> PyStr(CurrencyStr(receipt.currency)))
        @@ (S_status :> PyStr(S_completed))
        @@ (S_completed_at :> UtcNow)
        @@ (S_confirmation_code :> PyStr(Ap2IdStr(receipt.confirmation_code)))
        @@ (S_purpose :> receipt.purpose)

\* The actions _execute_action passes on to the MCP server's execute_action
McpRouted ==
    {S_find_workspace, S_confirm_booking, S_send_notification, S_gather_information,
     S_analyze_data}

\* _handle_payment_flow up to the return of create_payment_intent. The format
\* `{amount:.2f}` raises for an amount that is no number before the engine is called.
StartPaymentFlow(execution, resolved) ==
    LET amount == Get(resolved, S_amount, PyFloat(0))
        purpose == Get(resolved, S_purpose, PyStr(S_Payment))
    IN IF ~IsNumber(amount)
       THEN /\ FailStep(execution, S_format_error)
            /\ payment_stages' = <<>>
            /\ UNCHANGED ap2vars
       ELSE /\ CreatePaymentIntent(amount[2], purpose, "USD")
            /\ payment_stages' = <<ap2_ret'>>
            /\ executions' = (execution.execution_id :> execution) @@ executions
            /\ nav_frame' = [pc |-> "authorize", execution |-> execution,
                             payment_id |-> ap2_ret'.payment_id]
            /\ UNCHANGED <<execution_context, context_plan, nav_ret, confvars>>

\* _handle_task_delegation for a message that carries a step; the call returns
\* within the step unless the action is request_payment.
HandleTaskDelegation(message) ==
    LET step == message.payload.step
        k == nav_uuid_calls + 1
        execution == TaskExecution(ExecutionId(k), PlanIdOf(message.payload), step)
        resolved == ResolveParameters(step.parameters, execution_context)
    IN /\ resolver_call' = step.parameters
       /\ resolver_ret' = resolved
       /\ step_parameters' = ParametersAfterResolve(step.parameters, execution_context)
       /\ IF step.action = S_create_task
          THEN LET task_id == UuidStr(k + 1)
                   task_name == Get(resolved, S_task_name, PyStr(<<"U", "n", "n", "a", "m", "e", "d", " ", "t", "a", "s", "k">>))
               IN /\ mcp_tasks' =
                         (task_id :> Task(task_id, task_name,
                                          Get(resolved, S_metadata, PyDict(<<>>))))
                             @@ mcp_tasks
                  /\ nav_uuid_calls' = k + 1
                  /\ CompleteStep(execution, CreateTaskResult(task_id, task_name))
                  /\ payment_stages' = <<>>
                  /\ UNCHANGED ap2vars
          ELSE IF step.action = S_request_payment
          THEN /\ StartPaymentFlow(execution, resolved)
               /\ nav_uuid_calls' = k
               /\ UNCHANGED mcp_tasks
          ELSE IF step.action \in McpRouted
          THEN /\ nav_uuid_calls' = k + HandlerDraws(step.action)
               /\ CompleteStep(execution, ExecuteAction(step.action, resolved, k))
               /\ payment_stages' = <<>>
               /\ UNCHANGED <<ap2vars, mcp_tasks>>
          ELSE /\ nav_uuid_calls' = k
               /\ FailStep(execution, <<"U", "n", "k", "n", "o", "w", "n", " ", "a", "c", "t", "i", "o", "n", ":", " ">> \o step.action)
               /\ payment_stages' = <<>>
               /\ UNCHANGED <<ap2vars, mcp_tasks>>

\* receive_a2a_message
ReceiveA2AMessage(message) ==
    /\ nav_frame = NavIdle
    /\ IF message.message_type # S_task_delegation
       THEN /\ nav_ret' = [error |-> <<"U", "n", "k", "n", "o", "w", "n", " ", "m", "e", "s", "s", "a", "g", "e", " ", "t", "y", "p", "e", ":", " ">> \o message.message_type]
            /\ UNCHANGED <<ap2vars, execution_context, resolver_call, resolver_ret,
                           step_parameters, executions, mcp_tasks, nav_uuid_calls,
                           nav_frame, context_plan, payment_stages>>
       ELSE IF "step" \notin DOMAIN message.payload
       THEN /\ nav_ret' = [error |-> <<"N", "o", " ", "s", "t", "e", "p", " ", "i", "n", "f", "o", "r", "m", "a", "t", "i", "o", "n", " ", "i", "n", " ", "m", "e", "s", "s", "a", "g", "e">>]
            /\ UNCHANGED <<ap2vars, execution_context, resolver_call, resolver_ret,
                           step_parameters, executions, mcp_tasks, nav_uuid_calls,
                           nav_frame, context_plan, payment_stages>>
       ELSE HandleTaskDelegation(message)

\* _handle_payment_flow from the call of authorize_payment to the call of
\* confirm_payment, or to the exception the handler turns into a failed step.
PaymentAuthorize ==
    /\ nav_frame # NavIdle
    /\ nav_frame.pc = "authorize"
    /\ AuthorizePayment(nav_frame.payment_id, "agent_nav", "agent_signature")
    /\ payment_stages' = Append(payment_stages, ap2_ret')
    /\ IF ap2_ret'.success
       THEN /\ nav_frame' = [nav_frame EXCEPT !.pc = "confirm"]
            /\ UNCHANGED <<executions, execution_context, context_plan, nav_ret>>
       ELSE FailStep(nav_frame.execution,
                     <<"P", "a", "y", "m", "e", "n", "t", " ", "a", "u", "t", "h", "o", "r", "i", "z", "a", "t", "i", "o", "n", " ", "f", "a", "i", "l", "e", "d", ":", " ">> \o ap2_ret'.error)
    /\ UNCHANGED <<confvars, resolver_call, resolver_ret, step_parameters, mcp_tasks,
                   nav_uuid_calls>>

\* _handle_payment_flow from the call of confirm_payment to the handler's return.
PaymentConfirm ==
    /\ nav_frame # NavIdle
    /\ nav_frame.pc = "confirm"
    /\ ConfirmPayment(nav_frame.payment_id)
    /\ payment_stages' = Append(payment_stages, ap2_ret')
    /\ IF ap2_ret'.success
       THEN CompleteStep(nav_frame.execution, ReceiptDict(ap2_ret'))
       ELSE FailStep(nav_frame.execution,
                     <<"P", "a", "y", "m", "e", "n", "t", " ", "c", "o", "n", "f", "i", "r", "m", "a", "t", "i", "o", "n", " ", "f", "a", "i", "l", "e", "d", ":", " ">> \o ap2_ret'.error)
    /\ UNCHANGED <<confvars, resolver_call, resolver_ret, step_parameters, mcp_tasks,
                   nav_uuid_calls>>

OrchInit ==
    /\ executions = <<>>
    /\ mcp_tasks = <<>>
    /\ nav_uuid_calls = 0
    /\ nav_frame = NavIdle
    /\ nav_ret = [error |-> <<>>]
    /\ context_plan = <<>>
    /\ payment_stages = <<>>

\* ------------------------------------------------ the programs of demo_flow.py
\* demo_workspace_booking and demo_research_task: the goal and context each
\* gives Kai.
DemoKinds == {"demo_workspace_booking", "demo_research_task"}
DemoGoal(kind) ==
    IF kind = "demo_workspace_booking"
    THEN <<"B", "o", "o", "k", " ", "a", " ", "p", "r", "e", "m", "i", "u", "m", " ", "w", "o", "r", "k", "s", "p", "a", "c", "e", " ", "f", "o", "r", " ", "2", " ", "h", "o", "u", "r", "s">>
    ELSE <<"R", "e", "s", "e", "a", "r", "c", "h", " ", "t", "h", "e", " ", "l", "a", "t", "e", "s", "t", " ", "t", "r", "e", "n", "d", "s", " ", "i", "n", " ", "A", "I", " ", "a", "g", "e", "n", "t", "s">>
DemoContext(kind) ==
    IF kind = "demo_workspace_booking"
    THEN (S_duration_hours :> PyInt(2)) @@ (S_type :> PyStr(S_premium))
             @@ (S_user_email :> PyStr(S_user_email_value))
    ELSE (S_topic :> PyStr(<<"A", "I", " ", "a", "g", "e", "n", "t", "s">>)) @@ (S_depth :> PyStr(S_comprehensive))

DemoInit ==
    /\ plan_queue = <<>>
    /\ execution_results = <<>>
    /\ step_returns = <<>>
    /\ demo = "none"
    /\ runs = 0

\* A demo function up to its loop: a new AgentKai and a new AgentNav are built
\* (the MCP server and the AP2 engine are the process's singletons), Kai plans
\* the goal and builds the messages. A booking is started only while the
\* engine has room for its payment.
StartDemo(kind) ==
    /\ nav_frame = NavIdle
    /\ plan_queue = <<>>
    /\ runs < MaxRuns
    /\ kind = "demo_workspace_booking" =>
           /\ Cardinality(DOMAIN payment_intents) < MaxPayments
           /\ Cardinality(DOMAIN authorizations) < MaxAuths
           /\ Cardinality(DOMAIN receipts) < MaxReceipts
    /\ LET plan == CreatePlan(DemoGoal(kind), DemoContext(kind), nav_uuid_calls + 1)
       IN /\ plan_queue' = DelegateToNav(plan)
          /\ nav_uuid_calls' = nav_uuid_calls + 1 + Len(plan.steps)
    /\ demo' = kind
    /\ runs' = runs + 1
    /\ execution_results' = <<>>
    /\ step_returns' = <<>>
    /\ executions' = <<>>
    /\ execution_context' = <<>>
    /\ context_plan' = <<>>
    /\ nav_ret' = [error |-> <<>>]
    /\ payment_stages' = <<>>
    /\ resolver_call' = <<>>
    /\ resolver_ret' = <<>>
    /\ step_parameters' = <<>>
    /\ UNCHANGED <<ap2vars, mcp_tasks, nav_frame>>

\* The rest of a loop iteration once receive_a2a_message has returned:
\* demo_workspace_booking appends the result and leaves the loop when the
\* result's success is not true; demo_research_task goes on to the next message.
AfterReceive ==
    /\ IF nav_frame' = NavIdle
       THEN /\ step_returns' = Append(step_returns, nav_ret')
            /\ execution_results' =
                   IF demo = "demo_workspace_booking"
                   THEN Append(execution_results, nav_ret')
                   ELSE execution_results
            /\ plan_queue' =
                   IF demo = "demo_workspace_booking" /\ ~Succeeded(nav_ret')
                   THEN <<>>
                   ELSE Tail(plan_queue)
       ELSE UNCHANGED <<plan_queue, execution_results, step_returns>>
    /\ UNCHANGED <<demo, runs>>

\* A loop iteration: the next message is given to Nav.
DemoReceive ==
    /\ plan_queue # <<>>
    /\ ReceiveA2AMessage(Head(plan_queue))
    /\ AfterReceive

DemoNext ==
    \/ \E kind \in DemoKinds :
           StartDemo(kind) /\ UNCHANGED <<kycvars, pairvars, compvars>>
    \/ DemoReceive /\ UNCHANGED <<kycvars, pairvars, compvars>>
    \/ PaymentAuthorize /\ AfterReceive /\ UNCHANGED <<kycvars, pairvars, compvars>>
    \/ PaymentConfirm /\ AfterReceive /\ UNCHANGED <<kycvars, pairvars, compvars>>

\* ------------------------------------------------ Nav served by any sender
\* The plan ids of two plans.
PlanIds == {PlanId(1), PlanId(2)}

\* The messages Nav is sent: steps 1 to 4 of the booking plan and step 2 of the
\* research plan under either plan id, a payment step whose amount is a
\* string, a step with an action Nav does not route, a delegation without a
\* step and a message of another type.
NavMessages ==
    {NavMessage(S_task_delegation,
                [plan_id |-> plan_id,
                 step |-> PlanWorkspaceBooking(DemoContext("demo_workspace_booking"))[n],
                 goal |-> DemoGoal("demo_workspace_booking")]) :
         plan_id \in PlanIds, n \in 2..4}
    \cup
    {NavMessage(S_task_delegation,
                [plan_id |-> PlanId(1), step |-> step, goal |-> <<>>]) :
         step \in {PlanWorkspaceBooking(DemoContext("demo_workspace_booking"))[1],
                   PlanResearchTask(DemoContext("demo_research_task"))[2],
                   PlanStep(3, S_request_payment,
                            (S_amount :> PyStr(<<"5", "0">>))
                                @@ (S_purpose :> PyStr(S_premium)),
                            <<2>>),
                   PlanStep(2, S_cancel_booking, <<>>, <<1>>)}}
    \cup
    {NavMessage(S_task_delegation, [plan_id |-> PlanId(1), goal |-> <<>>]),
     NavMessage(S_status_update, [status |-> S_ready])}

NavNext ==
    \/ \E message \in NavMessages :
           /\ Cardinality(DOMAIN executions) < MaxExecutions
           /\ ReceiveA2AMessage(message)
           /\ UNCHANGED <<demovars, kycvars, pairvars, compvars>>
    \/ PaymentAuthorize /\ UNCHANGED <<demovars, kycvars, pairvars, compvars>>
    \/ PaymentConfirm /\ UNCHANGED <<demovars, kycvars, pairvars, compvars>>

NavInit ==
    /\ execution_context = <<>>
    /\ resolver_call = <<>>
    /\ resolver_ret = <<>>
    /\ step_parameters = <<>>
    /\ OrchInit
    /\ DemoInit

\* The resolver is given any execution context.
ResolverInit ==
    /\ AP2Init /\ KycInit /\ PairInit /\ CompanyInit
    /\ execution_context \in Contexts
    /\ resolver_call = <<>>
    /\ resolver_ret = <<>>
    /\ step_parameters = <<>>
    /\ OrchInit
    /\ DemoInit

ResolverNext ==
    \E workspace_id \in ParameterValues, payment_id \in ParameterValues :
        LET parameters == (S_workspace_id :> workspace_id) @@ (S_payment_id :> payment_id)
        IN /\ resolver_call' = parameters
           /\ resolver_ret' = ResolveParameters(parameters, execution_context)
           /\ step_parameters' = ParametersAfterResolve(parameters, execution_context)
           /\ execution_context' = ContextAfterResolve(parameters, execution_context)
           /\ UNCHANGED <<ap2vars, kycvars, pairvars, compvars, orchvars, demovars>>

Init == AP2Init /\ KycInit /\ PairInit /\ CompanyInit /\ NavInit

\* The payment engine served by any caller.
SpecAP2 == Init /\ [][AP2Next]_vars

\* The verification authority served by any sender.
SpecKyc == Init /\ [][KycNext]_vars

\* Two runs of the verification authority that differ in the identity values.
SpecKycPair == Init /\ [][PairNext]_vars

\* Investors, the verification authority and the companies that rely on it.
SpecCompany == Init /\ [][CompanyNext]_vars

\* The step-binding resolver applied to any parameters in any context.
SpecResolver == ResolverInit /\ [][ResolverNext]_vars

\* The programs of demo_flow.py, run one after the other in one process.
SpecDemo == Init /\ [][DemoNext]_vars

\* A step of a demo's loop: every call in it is synchronous and returns, so a
\* loop that has a message left goes on.
DemoStep ==
    /\ \/ DemoReceive
       \/ PaymentAuthorize /\ AfterReceive
       \/ PaymentConfirm /\ AfterReceive
    /\ UNCHANGED <<kycvars, pairvars, compvars>>

\* The programs of demo_flow.py, whose loops do not stop half-way.
SpecDemoLive == Init /\ [][DemoNext]_vars /\ WF_vars(DemoStep)

\* a2a_kyc_demo's agents served by any sender.
SpecVid == Init /\ [][VidNext]_vars

\* a2a_kyc_enhanced's and a2a_kyc_demo's agents given the same messages.
SpecAgree == Init /\ [][AgreeNext]_vars

\* The orchestrator served by any sender.
SpecNav == Init /\ [][NavNext]_vars

\* The payment engine called by two threads at once.
SpecConfirm == Init /\ [][ConfirmNext]_vars

\* The verification authority serving principals whose ids it has not seen before.
SpecKycIds == Init /\ [][KycIdsNext]_vars

\* ------------------------------------------------- the payment engine claims

\* The step just taken was authorize_payment(pid) on a payment the engine held.
AuthorizeStepOn(pid) ==
    /\ ap2_call'.op = "authorize_payment"
    /\ ap2_call'.payment_id = pid
    /\ pid \in DOMAIN payment_intents

\* The step just taken was confirm_payment(pid) on a payment the engine held.
ConfirmStepOn(pid) ==
    /\ ap2_call'.op = "confirm_payment"
    /\ ap2_call'.payment_id = pid
    /\ pid \in DOMAIN payment_intents

TerminalStatus == {COMPLETED, FAILED, CANCELLED}

\* The forward order created -> authorized -> processing -> completed.
StageRank(status) ==
    CASE status = INTENT_CREATED -> 0
      [] status = PENDING_AUTHORIZATION -> 0
      [] status = AUTHORIZED -> 1
      [] status = PROCESSING -> 2
      [] status = COMPLETED -> 3
      [] OTHER -> 4

\* C1: at most one receipt exists for each payment id, whatever sequence of
\* create_intent, authorize and confirm calls the engine has served (stated for
\* the payments of non-negative amount).
C1_AtMostOneReceipt ==
    \A pid \in DOMAIN payment_intents :
        payment_intents[pid].amount >= 0 => Cardinality(ReceiptsOf(pid)) <= 1

\* C2: a payment's status only moves forward along created -> authorized ->
\* processing -> completed or diverts to failed/cancelled from a non-terminal
\* status; a completed, failed or cancelled payment never changes status again
\* (stated for the payments of non-negative amount).
C2_StatusForwardOnly ==
    [][\A pid \in DOMAIN payment_intents :
          LET old == payment_intents[pid].status
              new == payment_intents'[pid].status
          IN payment_intents[pid].amount >= 0 =>
             /\ old \in TerminalStatus => new = old
             /\ old \notin TerminalStatus =>
                   \/ new \in {FAILED, CANCELLED}
                   \/ StageRank(new) >= StageRank(old)]_vars

\* C3: confirm on an existing payment whose status is not authorized returns
\* the not-authorized failure, issues no receipt and leaves every payment's
\* status unchanged.
C3_ConfirmNeedsAuthorized ==
    [][\A pid \in DOMAIN payment_intents :
          (ConfirmStepOn(pid) /\ payment_intents[pid].status # AUTHORIZED) =>
              /\ ap2_ret' = [success |-> FALSE, payment_id |-> pid,
                             error |-> <<"Payment not authorized. Current status: ",
                                         payment_intents[pid].status>>]
              /\ receipts' = receipts
              /\ payment_intents' = payment_intents]_vars

\* C3's case: confirm was refused on a payment that is completed and keeps its
\* one receipt.
C3_Witness ==
    /\ ap2_call.op = "confirm_payment"
    /\ ap2_call.payment_id \in DOMAIN payment_intents
    /\ payment_intents[ap2_call.payment_id].status = COMPLETED
    /\ ap2_ret.success = FALSE
    /\ Cardinality(ReceiptsOf(ap2_call.payment_id)) = 1

\* C4: authorize succeeds, and sets the status to authorized, only on a payment
\* whose status is created; on any other status it does not return success and
\* does not set the status to authorized (stated for the payments of
\* non-negative amount).
C4_AuthorizeOnlyFromCreated ==
    [][\A pid \in DOMAIN payment_intents :
          (/\ AuthorizeStepOn(pid)
           /\ payment_intents[pid].amount >= 0
           /\ payment_intents[pid].status # INTENT_CREATED) =>
              /\ ap2_ret'.success = FALSE
              /\ payment_intents'[pid].status = AUTHORIZED =>
                     payment_intents[pid].status = AUTHORIZED]_vars

C6_NoNegativeAmount ==
    /\ \A pid \in DOMAIN payment_intents : payment_intents[pid].amount >= 0
    /\ (ap2_call.op = "create_payment_intent" /\ ap2_call.amount < 0) =>
           "payment_id" \notin DOMAIN ap2_ret

\* C7: authorize and confirm on a payment id the engine does not hold return
\* the not-found failure and leave the payment, authorization and receipt
\* stores unchanged.
C7_UnknownPayment ==
    [][(/\ ap2_call'.op \in {"authorize_payment", "confirm_payment"}
        /\ ap2_call'.payment_id \notin DOMAIN payment_intents) =>
           /\ ap2_ret'.success = FALSE
           /\ ap2_ret'.error = <<"Payment intent not found: ", ap2_call'.payment_id>>
           /\ payment_intents' = payment_intents
           /\ authorizations' = authorizations
           /\ receipts' = receipts]_vars

\* C7's case: confirm was called with an id the engine does not hold while it
\* held an authorized payment, and was answered with the failure.
C7_Witness ==
    /\ ap2_call.op = "confirm_payment"
    /\ ap2_call.payment_id \notin DOMAIN payment_intents
    /\ ap2_ret.success = FALSE
    /\ \E pid \in DOMAIN payment_intents : payment_intents[pid].status = AUTHORIZED

\* C8: the risk score is a function of the amount, non-decreasing in it, and
\* lies in [0,1] for every payment record the engine holds; the score stored
\* with an authorization is that function of the payment's amount.
C8_RiskScoreBounded ==
    /\ \A pid \in DOMAIN payment_intents :
           /\ CalculateRiskScore(payment_intents[pid]) >= 0
           /\ CalculateRiskScore(payment_intents[pid]) <= RiskScale
    /\ \A p, q \in DOMAIN payment_intents :
           payment_intents[p].amount <= payment_intents[q].amount =>
               CalculateRiskScore(payment_intents[p]) <= CalculateRiskScore(payment_intents[q])
    /\ \A a \in DOMAIN authorizations :
           authorizations[a].risk_score =
               CalculateRiskScore(payment_intents[authorizations[a].payment_id])

\* C9: for a payment of non-negative amount and risk score at most 0.8 each
\* stage called in order succeeds: create returns a created record, authorize
\* on it succeeds, and confirm on the authorized payment returns a receipt with
\* status completed, the intent's amount and currency, the same payment id and
\* a transaction id different from the payment id, leaving the payment completed
\* with that receipt stored.
C9_InOrderFlow ==
    [][/\ (ap2_call'.op = "create_payment_intent" /\ ap2_call'.amount >= 0) =>
              /\ ap2_ret'.payment_id \in DOMAIN payment_intents' \ DOMAIN payment_intents
              /\ payment_intents'[ap2_ret'.payment_id].status = INTENT_CREATED
              /\ payment_intents'[ap2_ret'.payment_id].amount = ap2_call'.amount
       /\ \A pid \in DOMAIN payment_intents :
              LET intent == payment_intents[pid]
              IN /\ (/\ AuthorizeStepOn(pid)
                     /\ intent.status = INTENT_CREATED
                     /\ intent.amount >= 0
                     /\ CalculateRiskScore(intent) <= RiskThreshold) =>
                        /\ ap2_ret'.success = TRUE
                        /\ payment_intents'[pid].status = AUTHORIZED
                 /\ (/\ ConfirmStepOn(pid)
                     /\ intent.status = AUTHORIZED
                     /\ intent.amount >= 0) =>
                        /\ ap2_ret'.success = TRUE
                        /\ ap2_ret'.status = "completed"
                        /\ ap2_ret'.amount = intent.amount
                        /\ ap2_ret'.currency = intent.currency
                        /\ ap2_ret'.payment_id = pid
                        /\ ap2_ret'.transaction_id # pid
                        /\ payment_intents'[pid].status = COMPLETED
                        /\ ap2_ret'.receipt_id \in DOMAIN receipts' \ DOMAIN receipts
                        /\ receipts'[ap2_ret'.receipt_id].payment_id = pid
                        /\ receipts'[ap2_ret'.receipt_id].transaction_id =
                               ap2_ret'.transaction_id]_vars

\* C9's case: confirm has just returned the receipt of a payment of 50 that went
\* through create, one authorize and one confirm.
C9_Witness ==
    /\ ap2_call.op = "confirm_payment"
    /\ ap2_call.payment_id \in DOMAIN payment_intents
    /\ ap2_ret.success = TRUE
    /\ payment_intents[ap2_call.payment_id].amount = 50
    /\ payment_intents[ap2_call.payment_id].status = COMPLETED
    /\ Cardinality(AuthorizationsOf(ap2_call.payment_id)) = 1
    /\ Cardinality(ReceiptsOf(ap2_call.payment_id)) = 1

\* ------------------------------------------ the verification authority claims

\* The data-model invariant of one VerificationState object.
StateWellFormed(state) ==
    /\ state.permissions # <<>> => state.kyc_status = VERIFIED
    /\ state.verification_id # None <=> state.kyc_status = VERIFIED

\* The same invariant read off a serialized state view.
ViewWellFormed(view) ==
    /\ view.permissions # <<>> => view.kyc_status = "verified"
    /\ view.verification_id # None <=> view.kyc_status = "verified"

\* C10: for every principal, in every state the authority reaches and in every
\* state view it returns, the capability set is non-empty only if the status is
\* verified, and a verification id is present iff the status is verified.
C10_VerificationStateInvariant ==
    /\ \A investor_id \in DOMAIN verification_states :
           StateWellFormed(verification_states[investor_id])
    /\ kyc_call.message_type = VERIFICATION_STATE_REQUEST =>
           ViewWellFormed(kyc_ret.payload.verification_state)

\* C10's case: a principal was verified, a later submission of theirs was
\* rejected, and a query has just returned the rejected state.
C10_Witness ==
    /\ kyc_call.message_type = VERIFICATION_STATE_REQUEST
    /\ kyc_call.payload.investor_id \in DOMAIN identity_store
    /\ kyc_call.payload.investor_id \in DOMAIN verification_states
    /\ verification_states[kyc_call.payload.investor_id].kyc_status = REJECTED
    /\ kyc_ret.payload.verification_state.kyc_status = "rejected"


\* The investor the last message handled by the authority was about.
LastInvestor == kyc_call.payload.investor_id

\* The state view carried by the authority's last answer.
LastView == kyc_ret.payload.verification_state

\* Some required field is missing from identity_data.
MissingRequired(identity_data) ==
    \E f \in {"name", "date_of_birth", "national_id", "address"} :
        f \notin DOMAIN identity_data

\* C11: a query about a principal that has never submitted is answered, not
\* failed, with status not_verified, no verification id and an empty capability
\* set, whatever other principals have submitted.
C11_QueryBeforeSubmit ==
    (/\ kyc_call.message_type = VERIFICATION_STATE_REQUEST
     /\ last_submission[LastInvestor] = None) =>
        /\ kyc_ret.message_type = VERIFICATION_STATE_RESPONSE
        /\ LastView.investor_id = LastInvestor
        /\ LastView.kyc_status = "not_verified"
        /\ LastView.verification_id = None
        /\ LastView.permissions = <<>>

\* C11's case: a principal that never submitted was queried while another
\* principal was verified.
C11_Witness ==
    /\ kyc_call.message_type = VERIFICATION_STATE_REQUEST
    /\ last_submission[LastInvestor] = None
    /\ LastView.kyc_status = "not_verified"
    /\ \E other \in DOMAIN verification_states :
           /\ other # LastInvestor
           /\ verification_states[other].kyc_status = VERIFIED

WithoutTimestamp(state) == [state EXCEPT !.verified_at = None]

\* The step just taken handled a submission.
SubmissionStep == kyc_call'.message_type = KYC_SUBMISSION /\ kyc_clock' # kyc_clock

\* C13: a valid submission that repeats the principal's previous submission
\* returns the verification id the principal already held and leaves the
\* verification state as it was, timestamps apart: verified, capabilities
\* invest/trade/withdraw/transfer, risk tier low, the same compliance flags.
C13_SubmitIdempotent ==
    [][\A investor_id \in Investors :
          (/\ SubmissionStep
           /\ kyc_call'.payload.investor_id = investor_id
           /\ ~MissingRequired(kyc_call'.payload.identity_data)
           /\ last_submission[investor_id] = kyc_call'.payload.identity_data) =>
              /\ kyc_ret'.payload.verification_status = "verified"
              /\ kyc_ret'.payload.verification_id =
                     verification_states[investor_id].verification_id
              /\ WithoutTimestamp(verification_states'[investor_id]) =
                     WithoutTimestamp(verification_states[investor_id])
              /\ verification_states'[investor_id].kyc_status = VERIFIED
              /\ verification_states'[investor_id].permissions =
                     <<INVEST, TRADE, WITHDRAW, TRANSFER>>
              /\ verification_states'[investor_id].risk_level = "low"]_vars

\* C13's case: the same valid identity data has just been submitted a second
\* time in a row by one principal.
C13_Witness ==
    /\ kyc_call.message_type = KYC_SUBMISSION
    /\ ~MissingRequired(kyc_call.payload.identity_data)
    /\ repeat_count[LastInvestor] = 2
    /\ verification_states[LastInvestor].kyc_status = VERIFIED

\* The keys under which identity data is submitted or stored.
IdentityKeys ==
    UNION {DOMAIN identity_data : identity_data \in IdentityInputs}
        \cup {"identity_data", "identity_hash"}

\* The identity values submitted so far and their hashes.
IdentitySecrets ==
    UNION {{last_submission[i][f] : f \in DOMAIN last_submission[i]} :
               i \in {j \in Investors : last_submission[j] # None}}
        \cup {Sha256Hex(last_submission[i]) : i \in Investors}

\* C14: in two runs that differ only in the values of the identity fields
\* submitted, every state query is answered identically, and no answer carries
\* an identity field name, an identity value or an identity hash.
C14_ViewIndependentOfIdentity ==
    kyc_call.message_type = VERIFICATION_STATE_REQUEST =>
        /\ kyc_ret = pair_ret
        /\ DOMAIN LastView \cap IdentityKeys = {}
        /\ DOMAIN kyc_ret.payload \cap IdentityKeys = {}
        /\ LastView.verification_id \notin IdentitySecrets
        /\ LastView.verified_at \notin IdentitySecrets

\* C14's case: a principal verified from different identity values in the two
\* runs has just been queried.
C14_Witness ==
    /\ kyc_call.message_type = VERIFICATION_STATE_REQUEST
    /\ LastInvestor \in DOMAIN identity_store
    /\ LastInvestor \in DOMAIN pair_identity_store
    /\ identity_store[LastInvestor].identity_hash #
           pair_identity_store[LastInvestor].identity_hash
    /\ LastView.kyc_status = "verified"


\* The step just taken received an investment request at a company.
ReceiveStep == company_stack = <<>> /\ company_stack' # <<>>

\* The step just taken queried the authority, decided and returned.
DecisionStep == company_stack # <<>> /\ company_stack' = <<>>

\* The authority's current state of a principal.
CurrentState(investor_id) ==
    IF investor_id \in DOMAIN verification_states
    THEN verification_states[investor_id]
    ELSE DefaultState(investor_id)

\* The records of all ledgers.
AllTransactions ==
    UNION {{transactions[c][t] : t \in DOMAIN transactions[c]} : c \in Companies}

TerminalTransaction(record) ==
    record.status \in {TransactionStatus_BLOCKED, TransactionStatus_COMPLETED}

\* C15: every investment request is approved, its transaction completed,
\* exactly when the principal's current verification state is verified and
\* holds the invest permission; otherwise it is blocked with a stated reason.
\* Amount, company and carried verification id play no part.
C15_DecisionFromStateOnly ==
    [][DecisionStep =>
          LET frame == company_stack[1]
              state == CurrentState(frame.message.payload.investor_id)
              record == transactions'[frame.company_id][frame.transaction_id]
          IN IF state.kyc_status = VERIFIED /\ INVEST \in SeqRange(state.permissions)
             THEN /\ record.status = TransactionStatus_COMPLETED
                  /\ company_ret'.payload.status = "completed"
                  /\ company_ret'.payload.transaction_id = frame.transaction_id
             ELSE /\ record.status = TransactionStatus_BLOCKED
                  /\ record.reason # None
                  /\ company_ret'.payload.status = "blocked"
                  /\ "reason" \in DOMAIN company_ret'.payload
                  /\ company_ret'.payload.transaction_id = frame.transaction_id]_vars

\* C15's case: a request without a verification id was approved at one
\* company and a request of a larger amount carrying a verification id was
\* blocked at the other.
C15_Witness ==
    /\ company_stack = <<>>
    /\ \E t \in DOMAIN transactions["COMP-A"] :
           /\ transactions["COMP-A"][t].status = TransactionStatus_COMPLETED
           /\ transactions["COMP-A"][t].amount = 50000
    /\ \E t \in DOMAIN transactions["COMP-B"] :
           /\ transactions["COMP-B"][t].status = TransactionStatus_BLOCKED
           /\ transactions["COMP-B"][t].amount = 75000

\* C16: the outcome of every request follows the principal's latest
\* submission at the moment of the request: completed when that submission was
\* valid, blocked when it was invalid or there was none, whatever earlier
\* requests were answered.
C16_DecisionFresh ==
    [][DecisionStep =>
          LET investor_id == company_stack[1].message.payload.investor_id
              latest == last_submission[investor_id]
          IN company_ret'.payload.status =
                 IF latest # None /\ ~MissingRequired(latest)
                 THEN "completed" ELSE "blocked"]_vars

\* C16's case: a company that completed a transaction of a principal has
\* blocked the principal's next request, made after a rejected re-submission.
C16_Witness ==
    /\ company_stack = <<>>
    /\ company_ret.message_type = INVESTMENT_RESPONSE
    /\ company_ret.payload.status = "blocked"
    /\ \E c \in Companies : \E t1 \in DOMAIN transactions[c], t2 \in DOMAIN transactions[c] :
           /\ t1[2] < t2[2]
           /\ transactions[c][t1].investor_id = transactions[c][t2].investor_id
           /\ transactions[c][t1].status = TransactionStatus_COMPLETED
           /\ transactions[c][t2].status = TransactionStatus_BLOCKED
           /\ company_ret.payload.transaction_id = t2
           /\ MissingRequired(last_submission[transactions[c][t2].investor_id])

\* C17: a submission for one principal leaves every other principal's stored
\* verification state as it was, so the decision a company would take about the
\* other principal is the same before and after it.
C17_NoCrossPrincipalLeak ==
    [][SubmissionStep =>
          \A other \in Investors \ {kyc_call'.payload.investor_id} :
              /\ (other \in DOMAIN verification_states') = (other \in DOMAIN verification_states)
              /\ other \in DOMAIN verification_states =>
                     verification_states'[other] = verification_states[other]
              /\ \A c \in Companies, input \in RequestInputs :
                     LET request == InvestmentRequestMessage(other, c, input[1], None)
                         query == StateRequestMessage(CompanyAgentId(c), other)
                     IN IsApproved(request, StateResponse(verification_states', query).payload.verification_state)
                            = IsApproved(request, StateResponse(verification_states, query).payload.verification_state)]_vars

\* C17's case: a rejected submission of one principal has just been handled
\* while another principal is verified.
C17_Witness ==
    /\ kyc_call.message_type = KYC_SUBMISSION
    /\ verification_states[LastInvestor].kyc_status = REJECTED
    /\ \E other \in DOMAIN verification_states :
           /\ other # LastInvestor
           /\ verification_states[other].kyc_status = VERIFIED

C19_TransactionLedger ==
    [][/\ ReceiveStep =>
              LET frame == company_stack'[1]
                  ledger == transactions[frame.company_id]
              IN /\ frame.transaction_id \notin DOMAIN ledger
                 /\ DOMAIN transactions'[frame.company_id] =
                        DOMAIN ledger \cup {frame.transaction_id}
                 /\ transactions'[frame.company_id][frame.transaction_id].status =
                        TransactionStatus_PENDING_VERIFICATION
                 /\ \A c \in Companies \ {frame.company_id} :
                        transactions'[c] = transactions[c]
                 /\ kyc_clock' = kyc_clock
       /\ DecisionStep =>
              LET frame == company_stack[1]
              IN /\ kyc_clock' = kyc_clock + 1
                 /\ transactions[frame.company_id][frame.transaction_id].status =
                        TransactionStatus_PENDING_VERIFICATION
                 /\ TerminalTransaction(transactions'[frame.company_id][frame.transaction_id])
                 /\ \A c \in Companies : DOMAIN transactions'[c] = DOMAIN transactions[c]
       /\ ~ReceiveStep => \A c \in Companies : DOMAIN transactions'[c] = DOMAIN transactions[c]
       /\ company_stack' = <<>> => \A r \in AllTransactions' : TerminalTransaction(r)
       /\ \A c \in Companies : \A t \in DOMAIN transactions[c] :
              TerminalTransaction(transactions[c][t]) =>
                  /\ t \in DOMAIN transactions'[c]
                  /\ transactions'[c][t] = transactions[c][t]]_vars

\* C19's case: one company's ledger holds a blocked and a completed record
\* and no request is in progress.
C19_Witness ==
    /\ company_stack = <<>>
    /\ \E c \in Companies : \E t1 \in DOMAIN transactions[c], t2 \in DOMAIN transactions[c] :
           /\ transactions[c][t1].status = TransactionStatus_BLOCKED
           /\ transactions[c][t2].status = TransactionStatus_COMPLETED


\* The parameters resolved last held `value` under `key`.
ResolvedFrom(key, value) ==
    /\ resolver_call # <<>>
    /\ key \in DOMAIN resolver_call
    /\ resolver_call[key] = value

\* C20: a parameter ${stepN.field} whose step N has a result in the context
\* resolves to the field of the result's data envelope when the envelope holds
\* it, whatever the top level holds, and otherwise to the top-level field when
\* the result holds one.
C20_NestedBeforeTopLevel ==
    \A key \in {S_workspace_id, S_payment_id} :
    \A step_ref \in DOMAIN execution_context :
    \A field \in {S_workspace_id, S_payment_id, S_data} :
        ResolvedFrom(key, Placeholder(step_ref, field)) =>
            LET step_result == execution_context[step_ref]
                nested == S_data \in DOMAIN step_result
                              /\ field \in DOMAIN step_result[S_data][2]
            IN /\ nested => resolver_ret[key] = step_result[S_data][2][field]
               /\ (~nested /\ field \in DOMAIN step_result) =>
                      resolver_ret[key] = step_result[field]

\* C20's case: a reference to a field held both in the data envelope and at
\* the top level of the step's result, with different values, was resolved.
C20_Witness ==
    /\ ResolvedFrom(S_workspace_id, Placeholder(S_step1, S_workspace_id))
    /\ S_step1 \in DOMAIN execution_context
    /\ S_data \in DOMAIN execution_context[S_step1]
    /\ S_workspace_id \in DOMAIN execution_context[S_step1]
    /\ S_workspace_id \in DOMAIN execution_context[S_step1][S_data][2]
    /\ execution_context[S_step1][S_workspace_id] #
           execution_context[S_step1][S_data][2][S_workspace_id]
    /\ resolver_ret[S_workspace_id] = PyStr(<<"n", "e", "s", "t", "e", "d">>)


\* The fields a step result holds, in its data envelope or at its top level.
FieldsOf(step_result) ==
    DOMAIN step_result \cup
        (IF S_data \in DOMAIN step_result THEN DOMAIN step_result[S_data][2] ELSE {})

\* `value` is a reference ${stepN.field} to a field the context holds.
Resolvable(value) ==
    \E step_ref \in DOMAIN execution_context :
        \E field \in FieldsOf(execution_context[step_ref]) :
            value = Placeholder(step_ref, field)

\* C21: the resolved dict has exactly the keys of the parameters, and every
\* value other than a reference to a field the context holds is returned as it
\* was given: a reference to a step without an entry, a reference to a field the
\* step's result lacks, a malformed reference, a literal, a number.
C21_PassThrough ==
    resolver_call # <<>> =>
        /\ DOMAIN resolver_ret = DOMAIN resolver_call
        /\ \A key \in DOMAIN resolver_call :
               ~Resolvable(resolver_call[key]) =>
                   resolver_ret[key] = resolver_call[key]

\* C21's case: a reference to a step without an entry and a reference to a
\* field its step's result lacks were resolved together.
C21_Witness ==
    /\ ResolvedFrom(S_workspace_id, Placeholder(S_step3, S_workspace_id))
    /\ ResolvedFrom(S_payment_id, Placeholder(S_step1, S_payment_id))
    /\ S_step1 \in DOMAIN execution_context
    /\ S_data \in DOMAIN execution_context[S_step1]
    /\ S_payment_id \notin FieldsOf(execution_context[S_step1])
    /\ resolver_ret = resolver_call

HeldId(states, investor_id) ==
    IF investor_id \in DOMAIN states THEN states[investor_id].verification_id ELSE None

\* C29: each principal is associated with at most one verification id over any
\* sequence of submissions, the id is a function of the principal id alone
\* (whatever identity data was submitted and whenever), and two distinct
\* principals never hold the same verification id.
C29_OneIdPerPrincipal ==
    [][/\ \A investor_id \in DOMAIN verification_states' :
              /\ HeldId(verification_states, investor_id) # None
                     /\ HeldId(verification_states', investor_id) # None
                  => HeldId(verification_states', investor_id)
                         = HeldId(verification_states, investor_id)
       /\ \A i \in DOMAIN verification_states', j \in DOMAIN verification_states' :
              /\ i # j
              /\ HeldId(verification_states', i) # None
              => HeldId(verification_states', j) # HeldId(verification_states', i)]_vars

\* C30: a state query and a company's handling of an investment request leave
\* the authority's verification states and identity store as they were (a query
\* about a principal with no stored state stores nothing), and the one message
\* a company sends the authority while handling a request is a state request,
\* never a submission.
C30_QueriesReadOnly ==
    [][/\ (kyc_clock' # kyc_clock /\ kyc_call'.message_type = VERIFICATION_STATE_REQUEST)
              => /\ verification_states' = verification_states
                 /\ identity_store' = identity_store
       /\ (ReceiveStep \/ DecisionStep)
              => /\ verification_states' = verification_states
                 /\ identity_store' = identity_store
       /\ ReceiveStep => kyc_clock' = kyc_clock
       /\ DecisionStep
              => /\ kyc_clock' = kyc_clock + 1
                 /\ kyc_call'.message_type = VERIFICATION_STATE_REQUEST]_vars

\* A company has decided a request about a principal the authority holds no
\* state for, and the authority still holds none.
C30_Witness ==
    /\ company_ret.message_type = INVESTMENT_RESPONSE
    /\ kyc_call.message_type = VERIFICATION_STATE_REQUEST
    /\ kyc_call.payload.investor_id \notin DOMAIN verification_states
    /\ kyc_ret.payload.verification_state.kyc_status = "not_verified"
    /\ \E investor_id \in Investors : investor_id \in DOMAIN verification_states


\* C26: mutation of one payment id is serialized under concurrent callers:
\* when two callers run confirm concurrently on the same authorized payment,
\* the status check, the status writes and the receipt creation being separate
\* steps, exactly one confirm succeeds and exactly one receipt is issued for
\* that payment.
C26_ConfirmSerialized ==
    /\ \A payment_id \in DOMAIN payment_intents :
           /\ Cardinality(ReceiptsOf(payment_id)) <= 1
           /\ payment_intents[payment_id].status = COMPLETED
                  => Cardinality(ReceiptsOf(payment_id)) = 1
    /\ \A c1 \in Callers, c2 \in Callers :
           /\ c1 # c2
           /\ confirm_frames[c1].pc = "returned" /\ confirm_frames[c1].ret.success
           /\ confirm_frames[c2].pc = "returned" /\ confirm_frames[c2].ret.success
           => confirm_frames[c1].payment_id # confirm_frames[c2].payment_id

\* C27: confirm is atomic from every caller's perspective: no caller, a
\* concurrent status query and a caller whose confirm was abandoned partway
\* included, ever observes a payment in status processing without a receipt; a
\* payment it observes as authorized has no receipt and one it observes as
\* completed has its receipt.
C27_ConfirmAtomic ==
    (status_seen # <<>> /\ status_seen.found) =>
        /\ status_seen.status = PROCESSING => status_seen.receipts # {}
        /\ status_seen.status = AUTHORIZED => status_seen.receipts = {}
        /\ status_seen.status = COMPLETED => status_seen.receipts # {}


\* The statuses the specification calls non-terminal.
NonTerminalStatus == {INTENT_CREATED, AUTHORIZED, PROCESSING}

\* Every status change of a step is one of StatusSuccessors.
StatusChangesAreSuccessors ==
    [][\A payment_id \in DOMAIN payment_intents :
           payment_intents'[payment_id].status # payment_intents[payment_id].status
               => payment_intents'[payment_id].status
                      \in ReachableStatuses(
                              StatusSuccessors(payment_intents[payment_id].status))]_vars

\* C28: the status cancelled is supported: from every non-terminal payment
\* state (created, authorized, processing) some sequence of engine operations
\* moves the payment to cancelled.
C28_CancelledSupported ==
    \A payment_id \in DOMAIN payment_intents :
        payment_intents[payment_id].status \in NonTerminalStatus
            => CANCELLED \in ReachableStatuses({payment_intents[payment_id].status})


\* A returned dict that tells of a failed step: Nav reports no success, or the
\* result Nav passes on is a tool's failure result.
StepFailed(ret) ==
    \/ ~Succeeded(ret)
    \/ S_success \in DOMAIN ret.result /\ ret.result[S_success] = PyBool(FALSE)

\* C23: plan execution is fail-fast: once a step of a plan fails, no later
\* step of that plan is executed, and the results returned are exactly those
\* of the steps completed before it plus the failing step's error.
C23_FailFast ==
    /\ \A i \in 1..(Len(step_returns) - 1) : ~StepFailed(step_returns[i])
    /\ demo = "demo_workspace_booking" => execution_results = step_returns

\* The step just taken is the return of a handler whose step was request_payment.
PaymentStepReturned ==
    /\ nav_frame' = NavIdle
    /\ executions' # executions
    /\ nav_ret'.action = S_request_payment

StepRefOf(value) == Split(Slice2ToLast(value[2]), ".")[1]

\* C25: the execution context is append-only and scoped to one plan: an entry
\* for a step number, once stored, is never overwritten, and a placeholder in a
\* step of plan P never resolves to a result a step of another plan Q stored,
\* the two plans being executed by the same orchestrator.
C25_ContextScoped ==
    [][/\ \A key \in DOMAIN execution_context :
              /\ key \in DOMAIN execution_context'
              /\ execution_context'[key] = execution_context[key]
       /\ \A e \in DOMAIN executions' \ DOMAIN executions :
              \A key \in DOMAIN resolver_call' :
                  resolver_ret'[key] # resolver_call'[key]
                      => context_plan[StepRefOf(resolver_call'[key])]
                             = executions'[e].plan_id]_vars

\* ------------------------------------------------------- payment independence
\* The receipts held for payment q, as records.
ReceiptRecordsOf(q) == {receipts[r] : r \in ReceiptsOf(q)}

\* The step just taken was an engine operation that does not name payment q:
\* authorize_payment or confirm_payment on another id, or create_payment_intent.
StepNotOn(q) ==
    \/ /\ ap2_call'.op \in {"authorize_payment", "confirm_payment"}
       /\ ap2_call'.payment_id # q
    \/ ap2_call'.op = "create_payment_intent"

\* C31: operations on distinct payment ids are independent: authorize or
\* confirm on payment p, whether it succeeds or fails, leaves the status,
\* amount and receipts of every other payment q unchanged, and create_intent
\* leaves every existing payment unchanged.
C31_DistinctIdsIndependent ==
    [][\A q \in DOMAIN payment_intents :
          StepNotOn(q) =>
              /\ q \in DOMAIN payment_intents'
              /\ payment_intents'[q].status = payment_intents[q].status
              /\ payment_intents'[q].amount = payment_intents[q].amount
              /\ {receipts'[r] : r \in {x \in DOMAIN receipts' :
                                          receipts'[x].payment_id = q}}
                     = ReceiptRecordsOf(q)]_vars

\* C31's case: confirm_payment has just completed one payment while another
\* payment, authorized as well, is still authorized and has no receipt.
C31_Witness ==
    /\ ap2_call.op = "confirm_payment"
    /\ ap2_ret.success
    /\ \E q \in DOMAIN payment_intents :
           /\ q # ap2_call.payment_id
           /\ payment_intents[q].status = AUTHORIZED
           /\ ReceiptsOf(q) = {}
           /\ payment_intents[ap2_call.payment_id].status = COMPLETED

\* ------------------------------------------------- the context's frame effect
\* The step just taken is the return of receive_a2a_message.
HandlerReturned == nav_frame' = NavIdle

\* The step just taken is the return of a handler whose step completed: the
\* try block of _handle_task_delegation reached its return.
StepCompleted == HandlerReturned /\ Succeeded(nav_ret')

\* C32: a step's result is stored in the execution context, keyed by its step
\* number, iff the step completed successfully; a failed step, a message of
\* unknown kind and a delegation message without a step leave the execution
\* context unchanged.
C32_ContextStoresCompleted ==
    [][/\ StepCompleted =>
              /\ executions'[nav_ret'.execution_id].status = S_completed
              /\ execution_context' =
                     (StepKey(nav_ret'.step_number) :> nav_ret'.result)
                         @@ execution_context
       /\ ~StepCompleted => execution_context' = execution_context
       /\ (HandlerReturned /\ ~StepCompleted) =>
              \/ /\ "success" \notin DOMAIN nav_ret'
                 /\ "error" \in DOMAIN nav_ret'
                 /\ executions' = executions
              \/ /\ "success" \in DOMAIN nav_ret'
                 /\ executions'[nav_ret'.execution_id].status = S_failed]_vars

\* C32's case: a step has failed after another step completed, and the context
\* holds the completed step's result and nothing for the failed step.
C32_Witness ==
    /\ nav_frame = NavIdle
    /\ "success" \in DOMAIN nav_ret
    /\ ~nav_ret.success
    /\ execution_context # <<>>
    /\ StepKey(nav_ret.step_number) \notin DOMAIN execution_context
    /\ \E e \in DOMAIN executions : executions[e].status = S_completed

\* ------------------------------------------------------- execution records
TerminalExecutionStatus == {S_completed, S_failed}

\* A record is completed with a result and no error, or failed with an error
\* and no result.
TerminalRecord(execution) ==
    \/ /\ execution.status = S_completed
       /\ execution.result # PyNone
       /\ execution.error = PyNone
    \/ /\ execution.status = S_failed
       /\ execution.error # PyNone
       /\ execution.result = PyNone

\* C33: every per-step execution record is created in status running and, by
\* the time the step's handler returns, is terminal: either completed with a
\* result and no error, or failed with an error and no result; no record stays
\* pending or running and a terminal record never changes.
C33_ExecutionRecords ==
    [][/\ \A e \in DOMAIN executions' \ DOMAIN executions :
              \/ executions'[e].status = S_running
              \/ HandlerReturned
       /\ \A e \in DOMAIN executions' :
              \/ TerminalRecord(executions'[e])
              \/ /\ ~HandlerReturned
                 /\ executions'[e].status = S_running
                 /\ nav_frame'.execution.execution_id = e
       /\ \A e \in DOMAIN executions :
              /\ e \in DOMAIN executions'
              /\ executions[e].status \in TerminalExecutionStatus
                     => executions'[e] = executions[e]]_vars

\* C33's case: a completed and a failed record are held while the handler of a
\* third step, a payment, has created its record and has not returned yet.
C33_Witness ==
    /\ nav_frame # NavIdle
    /\ executions[nav_frame.execution.execution_id].status = S_running
    /\ \E e \in DOMAIN executions : executions[e].status = S_completed
    /\ \E e \in DOMAIN executions : executions[e].status = S_failed

\* ------------------------------------------------------ the booking's bindings
\* The step just taken is the return of the handler of the booking demo's
\* step 4, confirm_booking.
ConfirmBookingReturned ==
    /\ demo = "demo_workspace_booking"
    /\ HandlerReturned
    /\ plan_queue # <<>>
    /\ "action" \in DOMAIN nav_ret'
    /\ nav_ret'.action = S_confirm_booking

\* A value that is still a reference "${...}".
IsPlaceholder(value) == IsStr(value) /\ StartsWith(value[2], <<"$", "{">>)

\* C34: when the workspace-booking plan's five steps are executed in declared
\* order on a fresh orchestrator, step 4 (confirm_booking) is dispatched with
\* workspace_id equal to the workspace id produced by step 2 and payment_id
\* equal to the id of the payment completed by step 3; neither parameter is
\* left as an unresolved placeholder.
C34_BookingBindings ==
    [][ConfirmBookingReturned =>
          LET workspace == step_returns[2].result[S_data][2]
              payment_id == payment_stages[1].payment_id
              dispatched == resolver_ret'
              booking == nav_ret'.result[S_data][2]
          IN /\ step_returns[2].action = S_find_workspace
             /\ step_returns[3].action = S_request_payment
             /\ payment_intents[payment_id].status = COMPLETED
             /\ dispatched[S_workspace_id] = workspace[S_workspace_id]
             /\ dispatched[S_payment_id] = PyStr(Ap2IdStr(payment_id))
             /\ ~IsPlaceholder(dispatched[S_workspace_id])
             /\ ~IsPlaceholder(dispatched[S_payment_id])
             /\ booking[S_workspace_id] = dispatched[S_workspace_id]
             /\ booking[S_payment_id] = dispatched[S_payment_id]]_vars

\* C34's case: the booking demo has executed step 4 after steps 1 to 3.
C34_Witness ==
    /\ demo = "demo_workspace_booking"
    /\ Len(step_returns) = 4
    /\ step_returns[4].action = S_confirm_booking
    /\ Succeeded(step_returns[4])
    /\ step_returns[4].result[S_data][2][S_payment_id]
           = step_returns[3].result[S_payment_id]

\* ------------------------------------------------------------- termination
\* The step just taken is the return of the handler of a request_payment step
\* of a demo's plan.
DemoPaymentStepReturned ==
    /\ plan_queue # <<>>
    /\ HandlerReturned
    /\ "action" \in DOMAIN nav_ret'
    /\ nav_ret'.action = S_request_payment

\* No handler is running and every step attempted has a completed or failed
\* record.
PlanExecuted ==
    /\ plan_queue = <<>>
    /\ nav_frame = NavIdle
    /\ Len(step_returns) = Cardinality(DOMAIN executions)
    /\ \A e \in DOMAIN executions : executions[e].status \in TerminalExecutionStatus

\* C35: every payment created by a payment-shaped step eventually reaches a
\* terminal status (completed or failed): when the step's handler returns, no
\* payment it created is left in created, authorized or processing, and every
\* plan execution terminates with each attempted step completed or failed.
C35_PaymentsTerminate ==
    /\ [][DemoPaymentStepReturned =>
              \A i \in 1..Len(payment_stages') :
                  "payment_id" \in DOMAIN payment_stages'[i] =>
                      payment_intents'[payment_stages'[i].payment_id].status
                          \in {COMPLETED, FAILED}]_vars
    /\ [](nav_frame = NavIdle =>
              \A payment_id \in DOMAIN payment_intents :
                  payment_intents[payment_id].status \in {COMPLETED, FAILED})
    /\ (nav_frame # NavIdle) ~> (nav_frame = NavIdle)
    /\ (plan_queue # <<>>) ~> PlanExecuted

\* C35's case: the booking plan has been executed to its end and its payment
\* step has left a completed payment.
C35_Witness ==
    /\ demo = "demo_workspace_booking"
    /\ PlanExecuted
    /\ Len(step_returns) = 5
    /\ step_returns[3].action = S_request_payment
    /\ \E payment_id \in DOMAIN payment_intents :
           /\ step_returns[3].result[S_payment_id] = PyStr(Ap2IdStr(payment_id))
           /\ payment_intents[payment_id].status = COMPLETED

\* ------------------------------------------------------------ tool failures
\* A result dict that is a tool's failure result: its "success" is False.
ToolFailed(result) ==
    S_success \in DOMAIN result /\ result[S_success] = PyBool(FALSE)

\* C36: a step is reported as successful (execution record completed, success
\* flag true, result stored in the context) only if the action it dispatched
\* actually succeeded: when the tool server answers the dispatched action with
\* a failure result, the step is recorded as failed and the plan halts.
C36_ToolFailureFailsStep ==
    /\ \A e \in DOMAIN executions :
           executions[e].status = S_completed => ~ToolFailed(executions[e].result[2])
    /\ \A i \in 1..Len(step_returns) :
           Succeeded(step_returns[i]) => ~ToolFailed(step_returns[i].result)
    /\ \A key \in DOMAIN execution_context : ~ToolFailed(execution_context[key])
    /\ \A i \in 1..Len(step_returns) :
           ("result" \in DOMAIN step_returns[i] /\ ToolFailed(step_returns[i].result))
               => /\ i = Len(step_returns)
                  /\ plan_queue = <<>>

\* ------------------------------------------------------ the built-in risk score
\* C37: with the engine's built-in risk function (0.1 plus the amount divided
\* by 1000, the second term capped at 0.3), the risk score never exceeds 0.4
\* for any amount, so the high-risk branch of authorize is never taken and no
\* payment ever reaches status failed through any sequence of engine
\* operations.
C37_NeverHighRisk ==
    /\ \A payment_id \in DOMAIN payment_intents :
           /\ 10 * CalculateRiskScore(payment_intents[payment_id]) <= 4 * RiskScale
           /\ ~IsHighRisk(CalculateRiskScore(payment_intents[payment_id]))
           /\ payment_intents[payment_id].status # FAILED
    /\ \A a \in DOMAIN authorizations :
           10 * authorizations[a].risk_score <= 4 * RiskScale
    /\ (ap2_call.op = "authorize_payment" /\ ap2_call.payment_id \in DOMAIN payment_intents)
           => ap2_ret.success

\* C37's case: the payment of the largest amount, whose score is 0.4, has been
\* authorized and confirmed.
C37_Witness ==
    \E payment_id \in DOMAIN payment_intents :
        /\ payment_intents[payment_id].amount = 5000
        /\ payment_intents[payment_id].status = COMPLETED
        /\ \E a \in AuthorizationsOf(payment_id) :
               10 * authorizations[a].risk_score = 4 * RiskScale

\* ------------------------------------------------- the two relying parties
\* C38: the two relying-party implementations agree: for every sequence of
\* submissions (valid or invalid) and investment requests by the same
\* investors, the verification-id-based company agent (a2a_kyc_demo) and the
\* state-view-based company agent (a2a_kyc_enhanced) return the same
\* approve/block decision for each request, including requests made after a
\* verified investor's later rejected re-submission.
C38_ImplementationsAgree ==
    (company_stack = <<>> /\ company_ret.message_type = INVESTMENT_RESPONSE) =>
        /\ demo_ret.message_type = INVESTMENT_RESPONSE
        /\ demo_ret.recipient_agent = company_ret.recipient_agent
        /\ demo_ret.payload.status = company_ret.payload.status

\* The step just taken is a2a_kyc_demo's CompanyAgent answering an investment
\* request.
DemoRequestAnswered == demo_uuid_calls' # demo_uuid_calls

\* The verification id is in the authority's store, recorded for the
\* investor and verified.
BoundTo(verification_id, investor_id) ==
    /\ verification_id \in DOMAIN verification_store
    /\ verification_store[verification_id].investor_id = investor_id
    /\ verification_store[verification_id].status = "verified"

\* C39: in the verification-id-based flow (a2a_kyc_demo), a verification id is
\* bound to its principal: an investment request is approved only if the
\* verification id it carries is in the authority's store, is recorded for the
\* requesting investor id and has status verified; a request carrying no id,
\* an unknown id, or an id issued to a different investor is blocked.
C39_IdBoundToPrincipal ==
    [][DemoRequestAnswered =>
          LET request == demo_call'.payload
              answer == demo_ret'.payload
              company_id == CHOOSE c \in Companies :
                                CompanyAgentId(c) = demo_call'.recipient_agent
              record == demo_transactions'[company_id][answer.transaction_id]
          IN /\ answer.status \in {"completed", "blocked"}
             /\ answer.status = "completed"
                    <=> BoundTo(request.verification_id, request.investor_id)
             /\ record.status = EnumMember("TransactionStatus", answer.status)
             /\ record.investor_id = request.investor_id
             /\ verification_store' = verification_store]_vars

\* C39's case: a request that carried the verified id of another investor has
\* been blocked.
C39_Witness ==
    /\ demo_call.message_type = INVESTMENT_REQUEST
    /\ demo_ret.message_type = INVESTMENT_RESPONSE
    /\ demo_ret.payload.status = "blocked"
    /\ demo_call.payload.verification_id \in DOMAIN verification_store
    /\ verification_store[demo_call.payload.verification_id].status = "verified"
    /\ verification_store[demo_call.payload.verification_id].investor_id
           # demo_call.payload.investor_id

=========================================================================
